---- MODULE Spec2Model ----
(***************************************************************************)
(* A model of the Icicle ingestion pipeline: the per-chain sync loop and   *)
(* its raw tables, the P-chain RPC fetcher with its block cache, the       *)
(* retry backoff, and the cache command.  Each component has its own       *)
(* variables and its own specification; the variables of the other         *)
(* components stay at their initial values.                                *)
(***************************************************************************)
EXTENDS Integers, Sequences, FiniteSets, TLC

VARIABLES
    \* ---- chain syncer and store ----
    syncWatermark,  \* sync_watermark table: chain_id -> block_number (0 = no row)
    chainStatus,    \* chain_status table: chain_id -> last_block_on_chain
    rows,           \* physical rows of the raw tables: row key -> number of copies
    chainHead,      \* height of each chain at the RPC endpoint
    startBlock,     \* configured start_block of each chain (0 = omitted)
    W,              \* in-memory watermark of each syncer
    spc,            \* position of each syncer in its loop
    latest,         \* L, the result of the last GetLatest of each syncer
    winTo,          \* upper end `to` of the current window of each syncer
    faults,         \* number of errors and crashes injected so far
    replayed,       \* chains whose current window was appended before a crash
    \* ---- P-chain fetcher ----
    fHasCache,      \* f.cache != nil
    fVariant,       \* "norm": FetchBlockRange, "json": FetchBlockRangeJSON
    cache,          \* block cache: height -> "absent", "ok" (parsable), "bad"
    rpcLimit,       \* number of slots of f.rpcLimit in use
    call,           \* the FetchBlockRange / FetchBlockRangeJSON calls
    gor,            \* the per-block goroutines of each call
    ffaults         \* RPC and cache failures injected so far

syncVars == <<syncWatermark, chainStatus, rows, chainHead, startBlock, W, spc,
              latest, winTo, faults, replayed>>

fetchVars == <<fHasCache, fVariant, cache, rpcLimit, call, gor, ffaults>>

Min(a, b) == IF a < b THEN a ELSE b
Max(a, b) == IF a > b THEN a ELSE b

(***************************************************************************)
(* Bounds of the sync model.                                               *)
(***************************************************************************)
MaxBlock == 3
MaxFaults == 1
FetchBatchSize == 2

\* chain 0 is the P-chain (the only VM allowed chain_id 0), chain 1 an EVM chain
PChainId == 0
EvmChainId == 1
Chains == {PChainId, EvmChainId}
VM(c) == IF c = PChainId THEN "p" ELSE "evm"

(***************************************************************************)
(* The store: raw tables and their engines (raw_tables.sql).               *)
(***************************************************************************)
EvmTables == {"raw_blocks", "raw_txs", "raw_traces", "raw_logs"}
RawTables == EvmTables \cup {"p_chain_txs"}

\* ENGINE clause of each raw table
Engine(t) == IF t = "p_chain_txs" THEN "ReplacingMergeTree" ELSE "MergeTree"

\* Transactions of P-chain block b (test data): block 3 is empty, tx ids are b*10+i
TxCount(b) == b % 3
TxSeq(b) == [i \in 1..TxCount(b) |-> b * 10 + i]
AllPTxIds == UNION {{TxSeq(b)[i] : i \in 1..TxCount(b)} : b \in 1..MaxBlock}

\* A row key is <<table, id>>: id is a block number in the EVM tables (the rows
\* of that block) and a tx id in p_chain_txs (sort key (p_chain_id, tx_id)).
RowKeys == (EvmTables \X (1..MaxBlock)) \cup ({"p_chain_txs"} \X AllPTxIds)

\* Rows a FINAL read returns for a key: a replace-by-sort-key engine keeps one
\* row per sort key, a plain MergeTree keeps every inserted copy.
Logical(k) ==
    IF Engine(k[1]) = "ReplacingMergeTree" THEN Min(rows[k], 1) ELSE rows[k]

\* INSERT of a set of row keys: every engine first stores the rows as sent
Insert(keys) == [k \in RowKeys |-> rows[k] + (IF k \in keys THEN 1 ELSE 0)]

\* Background merge: only ReplacingMergeTree collapses rows of one sort key
Merge ==
    /\ \E k \in RowKeys : Engine(k[1]) = "ReplacingMergeTree" /\ rows[k] > 1
    /\ rows' = [k \in RowKeys |->
                  IF Engine(k[1]) = "ReplacingMergeTree" THEN Min(rows[k], 1)
                  ELSE rows[k]]
    /\ UNCHANGED <<syncWatermark, chainStatus, chainHead, startBlock, W, spc,
                   latest, winTo, faults, replayed>>

(***************************************************************************)
(* InsertPChainTxs (ingest.go): all transactions of the blocks, in block   *)
(* order, sent in batches of at most MaxTxsPerInsertBatch.                 *)
(***************************************************************************)
MaxTxsPerInsertBatch == 5000

RECURSIVE AllTxs(_, _)
AllTxs(from, to) == IF from > to THEN <<>> ELSE TxSeq(from) \o AllTxs(from + 1, to)

\* the chunks allTxs[i:end] of the batching loop
Chunks(s, n) ==
    [k \in 1..((Len(s) + n - 1) \div n) |->
        SubSeq(s, (k - 1) * n + 1, Min(k * n, Len(s)))]

\* a batching loop that stops one transaction short
InsertPChainTxs_DropsLast(from, to) ==
    LET all == AllTxs(from, to)
    IN Chunks(SubSeq(all, 1, Len(all) - 1), MaxTxsPerInsertBatch)

InsertPChainTxs(from, to) == Chunks(AllTxs(from, to), MaxTxsPerInsertBatch)

\* keys written when the first n batches were sent
SentKeys(batches, n) ==
    UNION {{<<"p_chain_txs", batches[j][i]>> : i \in 1..Len(batches[j])} : j \in 1..n}

\* Append of an EVM window to the tables ts (the four tables on success)
EvmKeys(ts, from, to) == ts \X (from..to)

\* the raw rows block b of chain c must have (what the chain holds at b)
BlockKeys(c, b) ==
    IF VM(c) = "p"
    THEN {<<"p_chain_txs", TxSeq(b)[i]>> : i \in 1..TxCount(b)}
    ELSE EvmTables \X {b}

(***************************************************************************)
(* Chain Syncer: one loop per chain.                                       *)
(*   init -> load watermark W (0 if absent; clamped up to start_block-1)   *)
(*   loop:  L <- GetLatest(); if W >= L continue                           *)
(*          to <- min(L, W + fetch_batch_size)                             *)
(*          blocks <- FetchRange(W+1, to); RawSink.Append(blocks)          *)
(*          update chain_status; SyncWatermark.Set(to); W <- to            *)
(* Any error is logged and the loop starts over; a crash restarts at init. *)
(***************************************************************************)
\* One chain is configured per run; the other chain's syncer is "off".
\* a restart that ignores the persisted watermark
LoadWatermark_FromConfig(c) == startBlock[c] - 1

\* init: read the persisted watermark and clamp it up to start_block - 1
LoadWatermark(c) == Max(syncWatermark[c], startBlock[c] - 1)

SyncInit(c) ==
    /\ spc[c] = "init"
    /\ W' = [W EXCEPT ![c] = LoadWatermark(c)]
    /\ spc' = [spc EXCEPT ![c] = "loop"]
    /\ UNCHANGED <<syncWatermark, chainStatus, rows, chainHead, startBlock,
                   latest, winTo, faults, replayed>>

\* `to` of the next window
WindowEnd(c, L) == Min(L, W[c] + FetchBatchSize)

SyncGetLatest(c) ==
    /\ spc[c] = "loop"
    /\ latest' = [latest EXCEPT ![c] = chainHead[c]]
    /\ IF W[c] >= chainHead[c]
       THEN UNCHANGED <<spc, winTo>>
       ELSE /\ winTo' = [winTo EXCEPT ![c] = WindowEnd(c, chainHead[c])]
            /\ spc' = [spc EXCEPT ![c] = "fetch"]
    /\ UNCHANGED <<syncWatermark, chainStatus, rows, chainHead, startBlock, W,
                   faults, replayed>>

SyncFetch(c) ==
    /\ spc[c] = "fetch"
    /\ spc' = [spc EXCEPT ![c] = "append"]
    /\ UNCHANGED <<syncWatermark, chainStatus, rows, chainHead, startBlock, W,
                   latest, winTo, faults, replayed>>

\* RawSink.Append of the window W+1..to, all batches sent
SyncAppend(c) ==
    /\ spc[c] = "append"
    /\ rows' = IF VM(c) = "p"
               THEN LET b == InsertPChainTxs(W[c] + 1, winTo[c])
                    IN Insert(SentKeys(b, Len(b)))
               ELSE Insert(EvmKeys(EvmTables, W[c] + 1, winTo[c]))
    /\ spc' = [spc EXCEPT ![c] = "status"]
    /\ replayed' = [replayed EXCEPT ![c] = IF @ = "pending" THEN "done" ELSE @]
    /\ UNCHANGED <<syncWatermark, chainStatus, chainHead, startBlock, W,
                   latest, winTo, faults>>

\* RawSink.Append failing part-way: some batches (P-chain) or some of the
\* four tables (EVM) are written, the error ends the iteration
SyncAppendFails(c) ==
    /\ spc[c] = "append"
    /\ faults < MaxFaults
    /\ faults' = faults + 1
    /\ IF VM(c) = "p"
       THEN LET b == InsertPChainTxs(W[c] + 1, winTo[c])
            IN \E n \in 0..(Len(b) - 1) : rows' = Insert(SentKeys(b, n))
       ELSE \E ts \in (SUBSET EvmTables) \ {EvmTables} :
               rows' = Insert(EvmKeys(ts, W[c] + 1, winTo[c]))
    /\ spc' = [spc EXCEPT ![c] = "loop"]
    /\ UNCHANGED <<syncWatermark, chainStatus, chainHead, startBlock, W,
                   latest, winTo, replayed>>

SyncStatus(c) ==
    /\ spc[c] = "status"
    /\ chainStatus' = [chainStatus EXCEPT ![c] = latest[c]]
    /\ spc' = [spc EXCEPT ![c] = "commit"]
    /\ UNCHANGED <<syncWatermark, rows, chainHead, startBlock, W, latest,
                   winTo, faults, replayed>>

\* value the commit step writes to sync_watermark
CommitValue(c) == winTo[c]

SyncCommit(c) ==
    /\ spc[c] = "commit"
    /\ syncWatermark' = [syncWatermark EXCEPT ![c] = CommitValue(c)]
    /\ W' = [W EXCEPT ![c] = CommitValue(c)]
    /\ spc' = [spc EXCEPT ![c] = "loop"]
    /\ replayed' = [replayed EXCEPT ![c] = "no"]
    /\ UNCHANGED <<chainStatus, rows, chainHead, startBlock, latest, winTo,
                   faults>>

\* an error in GetLatest, FetchRange, the status update or the watermark write
SyncError(c) ==
    /\ spc[c] \in {"loop", "fetch", "status", "commit"}
    /\ faults < MaxFaults
    /\ faults' = faults + 1
    /\ spc' = [spc EXCEPT ![c] = "loop"]
    /\ replayed' = [replayed EXCEPT ![c] = IF @ = "done" THEN "no" ELSE @]
    /\ UNCHANGED <<syncWatermark, chainStatus, rows, chainHead, startBlock, W,
                   latest, winTo>>

\* the process dies and is started again: memory is lost, the store is kept
SyncCrash ==
    /\ faults < MaxFaults
    /\ \E c \in Chains : spc[c] \notin {"init", "off"}
    /\ faults' = faults + 1
    /\ spc' = [c \in Chains |-> IF spc[c] = "off" THEN "off" ELSE "init"]
    /\ replayed' = [c \in Chains |->
                      IF spc[c] \in {"status", "commit"} THEN "pending"
                      ELSE IF replayed[c] = "done" THEN "done" ELSE replayed[c]]
    /\ UNCHANGED <<syncWatermark, chainStatus, rows, chainHead, startBlock, W,
                   latest, winTo>>

\* the chain produces a block
ChainGrows(c) ==
    /\ spc[c] # "off"
    /\ chainHead[c] < MaxBlock
    /\ chainHead' = [chainHead EXCEPT ![c] = @ + 1]
    /\ UNCHANGED <<syncWatermark, chainStatus, rows, startBlock, W, spc,
                   latest, winTo, faults, replayed>>

SyncInitState ==
    /\ syncWatermark = [c \in Chains |-> 0]
    /\ chainStatus = [c \in Chains |-> 0]
    /\ rows = [k \in RowKeys |-> 0]
    /\ \E on \in Chains, h \in 1..2, sb \in 0..2 :
          /\ spc = [c \in Chains |-> IF c = on THEN "init" ELSE "off"]
          /\ chainHead = [c \in Chains |-> IF c = on THEN h ELSE 0]
          /\ startBlock = [c \in Chains |-> IF c = on THEN sb ELSE 0]
    /\ W = [c \in Chains |-> 0]
    /\ latest = [c \in Chains |-> 0]
    /\ winTo = [c \in Chains |-> 0]
    /\ faults = 0
    /\ replayed = [c \in Chains |-> "no"]

(***************************************************************************)
(* P-chain RPC fetcher (pchainrpc/fetcher.go).                             *)
(***************************************************************************)
MaxHeight == 3
MaxConcurrency == 2
MaxRetries == 2
MaxFetchFaults == 3
MaxRange == 3
Calls == {1, 2}
Heights == 1..MaxHeight

\* The chain (test data): block 1 is an Apricot block that holds an
\* AdvanceTimeTx, block 2 an Apricot block without one, later blocks are Banff.
Kind(h) == IF h = 1 THEN "apricotAdv" ELSE IF h = 2 THEN "apricot" ELSE "banff"

\* timestampExtractor: Banff blocks carry a timestamp, Apricot blocks the zero time
HasOwnTimestamp(h) == Kind(h) = "banff"
\* the block holds an AdvanceTimeTx
HasAdvanceTimeTx(h) == Kind(h) = "apricotAdv"

\* normalizeBlock calls findTimestampForApricotBlock when the block has neither;
\* normalizeBlockToJSON estimates the time from the height instead
NeedsLookback(variant, h) ==
    variant = "norm" /\ ~HasOwnTimestamp(h) /\ ~HasAdvanceTimeTx(h) /\ h > 0

\* findTimestampForApricotBlock: lowest height of the backward search
maxLookback == 100
LookbackFloor(h) == IF h > maxLookback THEN h - maxLookback ELSE 0

\* one GetBlockByHeight(x) of the backward search from h has answered with
\* outcome o: 0 when the search is over, else the next height to ask for
LookbackNext(h, x, o) ==
    IF o = "ok" /\ HasAdvanceTimeTx(x) THEN 0
    ELSE IF x - 1 >= LookbackFloor(h) /\ x - 1 > 0 THEN x - 1 ELSE 0

\* cache.GetCompleteBlock(height, fill): an entry that is present is kept
CachePut(h, bytes) ==
    IF fHasCache /\ cache[h] = "absent" THEN [cache EXCEPT ![h] = bytes] ELSE cache

\* out: the height of the block the goroutine stored, 0 for nil
GorInit == [pc |-> "none", attempt |-> 0, lbh |-> 0, out |-> 0]
CallInit == [pc |-> "idle", from |-> 0, to |-> 0, snap |-> <<>>, scan |-> 0,
             lbh |-> 0, hit |-> {}, missing |-> {}, fetchErr |-> FALSE,
             cacheErr |-> FALSE, usedRpc |-> FALSE, full |-> FALSE,
             ret |-> "none", res |-> <<>>]

\* RPC requests in flight: goroutines inside GetBlockByHeight (their own block
\* or a block of the backward search) and callers inside the backward search
InFlight ==
    Cardinality({ch \in Calls \X Heights : gor[ch[1]][ch[2]].pc \in {"rpc", "lookback"}})
    + Cardinality({c \in Calls : call[c].pc = "scanLb"})

\* Steps 1-2 of FetchBlockRange / getCachedJSONBlocks over the snapshot snap,
\* from height h on: stops at a cached block whose parse needs the backward
\* search (stop is its height), else runs to the end of the range (stop = 0)
RECURSIVE Scan(_, _, _, _, _)
Scan(snap, h, to, hit, missing) ==
    IF h > to THEN [hit |-> hit, missing |-> missing, stop |-> 0]
    ELSE IF snap[h] = "ok"
         THEN IF NeedsLookback(fVariant, h)
              THEN [hit |-> hit, missing |-> missing, stop |-> h]
              ELSE Scan(snap, h + 1, to, hit \cup {h}, missing)
         ELSE Scan(snap, h + 1, to, hit, missing \cup {h})

\* result[i] of a call: the cached block, else what the goroutine stored
Assemble(c) ==
    [i \in 1..(call[c].to - call[c].from + 1) |->
        LET h == call[c].from + (i - 1)
        IN IF h \in call[c].hit THEN h ELSE gor[c][h].out]

\* the result of a call whose cache scan found every block
HitsOnly(from, to) == [i \in 1..(to - from + 1) |-> from + (i - 1)]

\* goroutines of a call, one per height of hs
Spawn(c, hs) ==
    [gor EXCEPT ![c] = [h \in Heights |->
        IF h \in hs THEN [GorInit EXCEPT !.pc = "wait"] ELSE GorInit]]

\* after the scan: return the hits, or start one goroutine per missing block
AfterScan(c, c0, r) ==
    IF r.stop # 0
    THEN /\ call' = [call EXCEPT ![c] = [c0 EXCEPT !.pc = "scanLb", !.scan = r.stop,
                                 !.lbh = r.stop, !.hit = r.hit,
                                 !.missing = r.missing, !.usedRpc = TRUE]]
         /\ UNCHANGED gor
    ELSE IF r.missing = {}
    THEN /\ call' = [call EXCEPT ![c] = [c0 EXCEPT !.pc = "done", !.hit = r.hit,
                                 !.snap = <<>>, !.scan = 0, !.lbh = 0,
                                 !.ret = "ok", !.res = HitsOnly(c0.from, c0.to)]]
         /\ UNCHANGED gor
    ELSE /\ call' = [call EXCEPT ![c] = [c0 EXCEPT !.pc = "wait", !.hit = r.hit,
                                 !.snap = <<>>, !.scan = 0, !.lbh = 0,
                                 !.missing = r.missing]]
         /\ gor' = Spawn(c, r.missing)

\* what a call does when cache.GetBlockRange returns an error
OnCacheError(c, c0) ==
    IF fVariant = "norm"
    THEN \* FetchBlockRange: "failed to query cache range"
         /\ call' = [call EXCEPT ![c] = [c0 EXCEPT !.pc = "done", !.ret = "err",
                                            !.snap = <<>>, !.scan = 0,
                                            !.cacheErr = TRUE]]
         /\ UNCHANGED gor
    ELSE \* getCachedJSONBlocks: every height is missing
         /\ call' = [call EXCEPT ![c] = [c0 EXCEPT !.pc = "wait", !.cacheErr = TRUE,
                                            !.snap = <<>>, !.scan = 0,
                                            !.missing = c0.from..c0.to]]
         /\ gor' = Spawn(c, c0.from..c0.to)

\* FetchBlockRange(from, to) / FetchBlockRangeJSON(from, to) is called; with a
\* cache, cache.GetBlockRange answers (cacheOk) or fails
FetchStart(c, from, to, cacheOk) ==
    /\ call[c].pc = "idle"
    /\ \A d \in Calls : d < c => call[d].pc # "idle"
    /\ from <= to /\ to - from + 1 <= MaxRange
    /\ ~cacheOk => (fHasCache /\ ffaults < MaxFetchFaults)
    /\ ffaults' = IF cacheOk THEN ffaults ELSE ffaults + 1
    /\ LET full == fHasCache /\ \A h \in from..to : cache[h] = "ok"
           c0 == [call[c] EXCEPT !.from = from, !.to = to, !.full = full,
                                 !.snap = cache, !.scan = from]
       IN IF ~fHasCache
          THEN \* fetchBlockRangeUncached / the no-cache branch
               /\ call' = [call EXCEPT ![c] = [c0 EXCEPT !.pc = "wait",
                                                  !.snap = <<>>, !.scan = 0,
                                                  !.missing = from..to]]
               /\ gor' = Spawn(c, from..to)
          ELSE IF ~cacheOk THEN OnCacheError(c, c0)
          ELSE AfterScan(c, c0, Scan(cache, from, to, {}, {}))
    /\ UNCHANGED <<fHasCache, fVariant, cache, rpcLimit>>

\* the caller's backward search for a cached Apricot block: one RPC answers
FetchScanLookback(c, o) ==
    /\ call[c].pc = "scanLb"
    /\ o # "ok" => ffaults < MaxFetchFaults
    /\ ffaults' = IF o = "ok" THEN ffaults ELSE ffaults + 1
    /\ LET nxt == LookbackNext(call[c].scan, call[c].lbh, o)
       IN IF nxt # 0
          THEN /\ call' = [call EXCEPT ![c].lbh = nxt]
               /\ UNCHANGED gor
          ELSE AfterScan(c, call[c],
                         Scan(call[c].snap, call[c].scan + 1, call[c].to,
                              call[c].hit \cup {call[c].scan}, call[c].missing))
    /\ UNCHANGED <<fHasCache, fVariant, cache, rpcLimit>>

\* goroutine: f.rpcLimit <- struct{}{}, then GetBlockByHeight is sent
GorAcquire(c, h) ==
    /\ gor[c][h].pc = "wait"
    /\ rpcLimit < MaxConcurrency
    /\ rpcLimit' = rpcLimit + 1
    /\ gor' = [gor EXCEPT ![c][h].pc = "rpc"]
    /\ call' = [call EXCEPT ![c].usedRpc = TRUE]
    /\ UNCHANGED <<fHasCache, fVariant, cache, ffaults>>

\* number of GetBlockByHeight attempts a goroutine makes for its block:
\* fetchSingleBlock loops attempt = 0..maxRetries, fetchAndCacheMissingBlocks
\* and fetchAndCacheMissingJSONBlocks ask once
Attempts == IF fHasCache THEN 1 ELSE MaxRetries + 1

\* a failing goroutine that keeps its slot
GorFail_NoRelease(c, h) ==
    /\ gor' = [gor EXCEPT ![c][h].pc = "done", ![c][h].attempt = @ + 1]
    /\ call' = [call EXCEPT ![c].fetchErr = TRUE]
    /\ rpcLimit' = rpcLimit

\* the goroutine ends without a block: fetchErr is set, the slot is released
GorFail(c, h) ==
    /\ gor' = [gor EXCEPT ![c][h].pc = "done", ![c][h].attempt = @ + 1]
    /\ call' = [call EXCEPT ![c].fetchErr = TRUE]
    /\ rpcLimit' = rpcLimit - 1

\* the goroutine has its block: it is stored, the slot is released
GorStore(c, h) ==
    /\ gor' = [gor EXCEPT ![c][h].pc = "done", ![c][h].out = h, ![c][h].lbh = 0]
    /\ rpcLimit' = rpcLimit - 1
    /\ UNCHANGED call

\* goroutine: GetBlockByHeight of its own block answered with outcome o
\* ("ok": parsable bytes, "bad": bytes that do not parse, "err": an error)
GorRpcDone(c, h, o) ==
    /\ gor[c][h].pc = "rpc"
    /\ o # "ok" => ffaults < MaxFetchFaults
    /\ ffaults' = IF o = "ok" THEN ffaults ELSE ffaults + 1
    /\ cache' = IF o = "err" THEN cache ELSE CachePut(h, o)
    /\ IF o = "ok"
       THEN IF NeedsLookback(fVariant, h)
            THEN /\ gor' = [gor EXCEPT ![c][h].pc = "lookback", ![c][h].lbh = h]
                 /\ UNCHANGED <<call, rpcLimit>>
            ELSE GorStore(c, h)
       ELSE IF gor[c][h].attempt + 1 < Attempts
            THEN /\ gor' = [gor EXCEPT ![c][h].pc = "backoff", ![c][h].attempt = @ + 1]
                 /\ UNCHANGED <<call, rpcLimit>>
            ELSE GorFail(c, h)
    /\ UNCHANGED <<fHasCache, fVariant>>

\* goroutine: time.Sleep(delay) is over, the next attempt is sent
GorRetry(c, h) ==
    /\ gor[c][h].pc = "backoff"
    /\ gor' = [gor EXCEPT ![c][h].pc = "rpc"]
    /\ UNCHANGED <<fHasCache, fVariant, cache, rpcLimit, call, ffaults>>

\* goroutine: one RPC of the backward search answered
GorLookback(c, h, o) ==
    /\ gor[c][h].pc = "lookback"
    /\ o # "ok" => ffaults < MaxFetchFaults
    /\ ffaults' = IF o = "ok" THEN ffaults ELSE ffaults + 1
    /\ LET nxt == LookbackNext(h, gor[c][h].lbh, o)
       IN IF nxt # 0
          THEN /\ gor' = [gor EXCEPT ![c][h].lbh = nxt]
               /\ UNCHANGED <<call, rpcLimit>>
          ELSE GorStore(c, h)
    /\ UNCHANGED <<fHasCache, fVariant, cache>>

\* a range call that never looks at fetchErr
RangeFailed_Never(c) == FALSE

\* after wg.Wait(): does the call return the error?
RangeFailed(c) == call[c].fetchErr

\* wg.Wait() is over: the error, or the merged range
FetchReturn(c) ==
    /\ call[c].pc = "wait"
    /\ \A h \in Heights : gor[c][h].pc \in {"none", "done"}
    /\ LET res == Assemble(c)
           failed == \/ RangeFailed(c)
                     \/ /\ fHasCache /\ fVariant = "norm"
                        /\ \E h \in call[c].missing : gor[c][h].out = 0
       IN call' = [call EXCEPT ![c].pc = "done",
                               ![c].ret = IF failed THEN "err" ELSE "ok",
                               ![c].res = IF failed THEN <<>> ELSE res]
    /\ UNCHANGED <<fHasCache, fVariant, cache, rpcLimit, gor, ffaults>>

Outcomes == {"ok", "bad", "err"}

\* a fetcher on which nothing has been called
FetchIdle ==
    /\ fHasCache = FALSE
    /\ fVariant = "norm"
    /\ cache = [h \in Heights |-> "absent"]
    /\ rpcLimit = 0
    /\ call = [c \in Calls |-> CallInit]
    /\ gor = [c \in Calls |-> [h \in Heights |-> GorInit]]
    /\ ffaults = 0

\* NewFetcher: with or without a cache; the cache may hold blocks of earlier
\* runs (an unparsable entry comes from an RPC answer that did not parse)
FetchInitState ==
    /\ fHasCache \in BOOLEAN
    /\ fVariant \in {"norm", "json"}
    /\ cache \in [Heights -> {"absent", "ok"}]
    /\ ~fHasCache => cache = [h \in Heights |-> "absent"]
    /\ rpcLimit = 0
    /\ call = [c \in Calls |-> CallInit]
    /\ gor = [c \in Calls |-> [h \in Heights |-> GorInit]]
    /\ ffaults = 0

\* a chain syncer at rest
SyncIdle ==
    /\ syncWatermark = [c \in Chains |-> 0]
    /\ chainStatus = [c \in Chains |-> 0]
    /\ rows = [k \in RowKeys |-> 0]
    /\ chainHead = [c \in Chains |-> 0]
    /\ startBlock = [c \in Chains |-> 0]
    /\ W = [c \in Chains |-> 0]
    /\ spc = [c \in Chains |-> "off"]
    /\ latest = [c \in Chains |-> 0]
    /\ winTo = [c \in Chains |-> 0]
    /\ faults = 0
    /\ replayed = [c \in Chains |-> "no"]

(***************************************************************************)
(* Retry backoff of the RPC calls (GetLatestBlock, fetchSingleBlock,       *)
(* fetchSingleJSONBlock, GetCurrentValidators).  time.Duration is an int64 *)
(* count of nanoseconds; a value is held as its eight bytes, lowest first, *)
(* and the arithmetic wraps at 2^64 as Go's does.                          *)
(***************************************************************************)
VARIABLES bRetryDelayMs, bMaxRetries, bAttempt, bDelay, bPrevDelay

backoffVars == <<bRetryDelayMs, bMaxRetries, bAttempt, bDelay, bPrevDelay>>

Byte == 2^8
WordLen == 64 \div 8

\* the int64 of a number below 2^31
Word(n) == [i \in 1..WordLen |-> IF i <= 4 THEN (n \div Byte^(i - 1)) % Byte ELSE 0]

\* 1 << uint(s) on an int64: bit s, and 0 once s >= 64
ShlOne(s) ==
    [i \in 1..WordLen |-> IF s < 64 /\ i = (s \div 8) + 1 THEN 2^(s % 8) ELSE 0]

\* a * b on int64, wrapping: column i of the schoolbook product
RECURSIVE MulColumn(_, _, _, _)
MulColumn(a, b, i, j) ==
    IF j > i THEN 0 ELSE a[j] * b[i - j + 1] + MulColumn(a, b, i, j + 1)

RECURSIVE MulFrom(_, _, _, _)
MulFrom(a, b, i, carry) ==
    IF i > WordLen THEN <<>>
    ELSE LET t == MulColumn(a, b, i, 1) + carry
         IN <<t % Byte>> \o MulFrom(a, b, i + 1, t \div Byte)

Mul(a, b) == MulFrom(a, b, 1, 0)

\* the sign bit of an int64
IsNegative(a) == a[WordLen] >= Byte \div 2
IsZero(a) == \A i \in 1..WordLen : a[i] = 0

\* a > b on the bytes from the highest down
RECURSIVE GreaterFrom(_, _, _)
GreaterFrom(a, b, i) ==
    IF i = 0 THEN FALSE
    ELSE IF a[i] # b[i] THEN a[i] > b[i]
    ELSE GreaterFrom(a, b, i - 1)

\* a > b on int64
Greater(a, b) ==
    IF IsNegative(a) # IsNegative(b) THEN IsNegative(b)
    ELSE GreaterFrom(a, b, WordLen)

\* time.Millisecond, time.Second, and the cap 10 * time.Second
Millisecond == Word(10^6)
Second == Word(10^9)
TenSeconds == Mul(Word(10), Second)

\* delay := f.retryDelay * time.Duration(1<<uint(attempt-1));
\* if delay > 10*time.Second { delay = 10 * time.Second }
Delay(retryDelay, attempt) ==
    LET delay == Mul(retryDelay, ShlOne(attempt - 1))
    IN IF Greater(delay, TenSeconds) THEN TenSeconds ELSE delay

\* retry delays (ms) and retry counts a Fetcher is built with: NewFetcher's
\* defaults, and what the cache command passes
RetryDelaysMs == {100, 500}
RetryCounts == {3, 100}

\* the loop "for attempt := 0; attempt <= f.maxRetries; attempt++" goes round
\* after a failed request: the delay of the next attempt is computed and slept
BackoffRetry ==
    /\ bAttempt < bMaxRetries
    /\ bAttempt' = bAttempt + 1
    /\ bPrevDelay' = bDelay
    /\ bDelay' = Delay(Mul(Word(bRetryDelayMs), Millisecond), bAttempt + 1)
    /\ UNCHANGED <<bRetryDelayMs, bMaxRetries>>

\* a retrying call starts: attempt 0 is sent without a delay
BackoffInitState ==
    /\ bRetryDelayMs \in RetryDelaysMs
    /\ bMaxRetries \in RetryCounts
    /\ bAttempt = 0
    /\ bDelay = Word(0)
    /\ bPrevDelay = Word(0)

\* no retrying call
BackoffIdle ==
    /\ bRetryDelayMs = 0
    /\ bMaxRetries = 0
    /\ bAttempt = 0
    /\ bDelay = Word(0)
    /\ bPrevDelay = Word(0)

(***************************************************************************)
(* The cache command (cmd/cmd_cache.go, runChainCache).  The cache holds   *)
(* runs of blocks <<from, to>>; a chunk fetch that fails leaves at least   *)
(* one block of its chunk out of the cache.                                *)
(***************************************************************************)
VARIABLES cpc, cfgStartBlock, cfgEndBlock, chunkSize, latestBlock, checkpoint,
          readCheckpoint, blockRuns, cStartBlock, endBlock, current, inFlight,
          failedChunks, highestBlock, lastCheckpoint, lastSet, lastPassed,
          cfaults

cacheVars == <<cpc, cfgStartBlock, cfgEndBlock, chunkSize, latestBlock, checkpoint,
               readCheckpoint, blockRuns, cStartBlock, endBlock, current, inFlight,
               failedChunks, highestBlock, lastCheckpoint, lastSet, lastPassed,
               cfaults>>

MaxChunks == 11
MaxCacheFaults == 1
\* semaphore := make(chan struct{}, 10)
semaphoreCap == 10
checkpointInterval == 1000
\* cfg.FetchBatchSize: a configured value, and the default
ChunkSizes == {500, 1000}

\* cacheInstance.SetCheckpoint(h): the stored checkpoint is never lowered
SetCheckpoint(h) == Max(checkpoint, h)

\* every block of lo..hi lies in a run of the cache
RECURSIVE Covered(_, _, _)
Covered(runs, lo, hi) ==
    IF lo > hi THEN TRUE
    ELSE \E r \in runs : r[1] <= lo /\ lo <= r[2] /\ Covered(runs, r[2] + 1, hi)

\* originalStartBlock
OriginalStartBlock == IF cfgStartBlock = 0 THEN 1 ELSE cfgStartBlock

\* a start block that ignores the checkpoint
ResumeBlock_FromConfig(cp) == OriginalStartBlock

\* startBlock: resume from the checkpoint if it's ahead
ResumeBlock(cp) == IF cp > OriginalStartBlock THEN cp + 1 ELSE OriginalStartBlock

\* runChainCache up to the fetch loop: checkpoint, start and end block
CacheStart ==
    /\ cpc = "idle"
    /\ LET sb == ResumeBlock(checkpoint)
           eb == IF cfgEndBlock = 0 \/ cfgEndBlock > latestBlock THEN latestBlock
                 ELSE cfgEndBlock
       IN /\ readCheckpoint' = checkpoint
          /\ cStartBlock' = sb
          /\ endBlock' = eb
          /\ cpc' = IF sb > eb THEN "returned" ELSE "loop"
          /\ current' = sb
          /\ highestBlock' = sb - 1
          /\ lastCheckpoint' = sb - 1
    /\ UNCHANGED <<cfgStartBlock, cfgEndBlock, chunkSize, latestBlock, checkpoint,
                   blockRuns, inFlight, failedChunks, lastSet, lastPassed, cfaults>>

\* one round of the loop: a slot of the semaphore is taken and the goroutine
\* of chunk current..batchEnd is started
CacheSpawn ==
    /\ cpc = "loop"
    /\ current <= endBlock
    /\ Cardinality(inFlight) < semaphoreCap
    /\ LET batchEnd == Min(current + chunkSize - 1, endBlock)
       IN /\ inFlight' = inFlight \cup {<<current, batchEnd>>}
          /\ current' = batchEnd + 1
    /\ UNCHANGED <<cpc, cfgStartBlock, cfgEndBlock, chunkSize, latestBlock,
                   checkpoint, readCheckpoint, blockRuns, cStartBlock, endBlock,
                   failedChunks, highestBlock, lastCheckpoint, lastSet, lastPassed,
                   cfaults>>

\* a chunk goroutine: fetcher.FetchBlockRange(from, to) returned an error
ChunkFails(ch) ==
    /\ ch \in inFlight
    /\ cfaults < MaxCacheFaults
    /\ cfaults' = cfaults + 1
    /\ inFlight' = inFlight \ {ch}
    /\ failedChunks' = failedChunks \cup {ch}
    /\ UNCHANGED <<cpc, cfgStartBlock, cfgEndBlock, chunkSize, latestBlock,
                   checkpoint, readCheckpoint, blockRuns, cStartBlock, endBlock,
                   current, highestBlock, lastCheckpoint, lastSet, lastPassed>>

\* a chunk goroutine: the chunk was fetched (its blocks are in the cache);
\* highestBlock is raised and, an interval after the last checkpoint, the
\* checkpoint is stored (setOk) or its write fails
ChunkDone(ch, setOk) ==
    /\ ch \in inFlight
    /\ inFlight' = inFlight \ {ch}
    /\ blockRuns' = blockRuns \cup {ch}
    /\ LET hb == IF ch[2] > highestBlock THEN ch[2] ELSE highestBlock
       IN /\ highestBlock' = hb
          /\ IF hb - lastCheckpoint >= checkpointInterval
             THEN IF setOk
                  THEN /\ checkpoint' = SetCheckpoint(hb)
                       /\ lastSet' = hb
                       /\ lastPassed' = hb
                       /\ lastCheckpoint' = hb
                       /\ UNCHANGED cfaults
                  ELSE /\ cfaults < MaxCacheFaults
                       /\ cfaults' = cfaults + 1
                       /\ lastPassed' = hb
                       /\ UNCHANGED <<checkpoint, lastSet, lastCheckpoint>>
             ELSE /\ setOk
                  /\ UNCHANGED <<checkpoint, lastSet, lastPassed, lastCheckpoint,
                                 cfaults>>
    /\ UNCHANGED <<cpc, cfgStartBlock, cfgEndBlock, chunkSize, latestBlock,
                   readCheckpoint, cStartBlock, endBlock, current, failedChunks>>

\* fetchWg.Wait() is over: the final checkpoint endBlock is stored
CacheFinish ==
    /\ cpc = "loop"
    /\ current > endBlock
    /\ inFlight = {}
    /\ cpc' = "returned"
    /\ checkpoint' = SetCheckpoint(endBlock)
    /\ lastSet' = endBlock
    /\ lastPassed' = endBlock
    /\ UNCHANGED <<cfgStartBlock, cfgEndBlock, chunkSize, latestBlock,
                   readCheckpoint, blockRuns, cStartBlock, endBlock, current,
                   inFlight, failedChunks, highestBlock, lastCheckpoint, cfaults>>

\* the command is started.  On a chain of three chunks the configuration
\* varies and an earlier run may have left a checkpoint and the blocks below
\* it in the cache; a chain of MaxChunks chunks is cached with the defaults
CacheInitState ==
    /\ cpc = "idle"
    /\ chunkSize \in ChunkSizes
    /\ \E n \in {3, MaxChunks} :
          /\ latestBlock = n * chunkSize
          /\ cfgStartBlock \in IF n = 3 THEN {0, 1, chunkSize + 1} ELSE {0}
          /\ cfgEndBlock \in IF n = 3 THEN {0, chunkSize, latestBlock - 1} ELSE {0}
          /\ checkpoint \in IF n = 3 THEN {0, chunkSize, 2 * chunkSize} ELSE {0}
    /\ blockRuns = IF checkpoint = 0 THEN {} ELSE {<<1, checkpoint>>}
    /\ readCheckpoint = 0
    /\ cStartBlock = 0
    /\ endBlock = 0
    /\ current = 0
    /\ inFlight = {}
    /\ failedChunks = {}
    /\ highestBlock = 0
    /\ lastCheckpoint = 0
    /\ lastSet = 0
    /\ lastPassed = 0
    /\ cfaults = 0

\* the cache command is not run
CacheIdle ==
    /\ cpc = "off"
    /\ chunkSize = 0
    /\ cfgStartBlock = 0
    /\ latestBlock = 0
    /\ cfgEndBlock = 0
    /\ checkpoint = 0
    /\ blockRuns = {}
    /\ readCheckpoint = 0
    /\ cStartBlock = 0
    /\ endBlock = 0
    /\ current = 0
    /\ inFlight = {}
    /\ failedChunks = {}
    /\ highestBlock = 0
    /\ lastCheckpoint = 0
    /\ lastSet = 0
    /\ lastPassed = 0
    /\ cfaults = 0


(***************************************************************************)
(* Index runner. Package indexer discovers granular metrics and batched    *)
(* and immediate incremental indexers; package evmindexer runs its         *)
(* incremental indexers block by block. OnBlock is called from the chain   *)
(* syncer's task while the runner's own task loops over its indexers, so   *)
(* every read of latestBlockNum / latestBlockTime is a step of its own.    *)
(* Wall-clock time is counted in tenths of a second, block time in hours   *)
(* since the epoch.                                                        *)
(***************************************************************************)
VARIABLES
    ixKind,             \* what the runner discovered: "metrics", "batched",
                        \* "immediate" (package indexer), "perblock" (evmindexer)
    ixStartBlock,       \* r.startBlock (evmindexer)
    latestBlockNum,     \* r.latestBlockNum
    latestBlockTime,    \* r.latestBlockTime
    watermarks,         \* r.watermarks: name -> [LastPeriod, LastBlockNum]
    indexerWatermarks,  \* table indexer_watermarks read with FINAL
    lastRunTime,        \* r.lastRunTime, -1: no entry
    lastWatermarkSave,  \* r.lastWatermarkSave, -1: zero time
    now,                \* wall clock
    ticks,              \* how often the wall clock moved
    incarnation,        \* flips when the process is started again
    ipc,                \* where the runner's task is
    gi,                 \* loop index over granularities / indexer files
    periods,            \* local periods of processGranularMetrics
    blockNum,           \* local blockNum of processIncrementalBatch
    feedMonotone,       \* no OnBlock of this process reported less than one before
    lastExec,           \* name -> range of the last executed indexer SQL, <<>> none
    execAt,             \* name -> wall time of this process's last execution
    rawHours,           \* hours in which the raw tables hold a record the metric counts
    metrics             \* table metrics: rows <<granularity, period>>

indexVars == <<ixKind, ixStartBlock, latestBlockNum, latestBlockTime, watermarks,
               indexerWatermarks, lastRunTime, lastWatermarkSave, now, ticks,
               incarnation, ipc, gi, periods, blockNum, feedMonotone,
               lastExec, execAt, rawHours, metrics>>

MaxIxBlock == 3
MaxDays == 2
MaxTicks == 2

\* granularities in the order processGranularMetrics loops over them
Granularities == <<"hour", "day", "week", "month">>

\* incremental indexer files in discovery order
Indexers == <<"ix1", "ix2">>

Names == {Granularities[i] : i \in 1..Len(Granularities)}
             \cup {Indexers[i] : i \in 1..Len(Indexers)}

\* getWatermark creates an empty watermark: zero time (-1), block 0
ZeroWatermark == [LastPeriod |-> -1, LastBlockNum |-> 0]

epoch == 0

batchedMinInterval == 5 * 60 * 10
immediateMinInterval == 9
saveInterval == 10

\* default incremental_batch_size of the configuration
incremental_batch_size == 20 * 1000

\* hours in a period; the month is January 1970, the only one the feed reaches
PeriodLen(g) ==
    CASE g = "hour" -> 1
      [] g = "day" -> 24
      [] g = "week" -> 7 * 24
      [] g = "month" -> 31 * 24

nextPeriod(p, g) == p + PeriodLen(g)

\* period starts p0 = nextPeriod(last) .. pk, pk the largest closed one:
\* nextPeriod(pk) <= blockTime
getPeriodsToProcess(last, blockTime, g) ==
    LET n == IF blockTime < last THEN 0
             ELSE Max(0, ((blockTime - last) \div PeriodLen(g)) - 1)
    IN [i \in 1..n |-> last + i * PeriodLen(g)]

\* a window that reaches one period further
MetricWindow_OneMore(ps, g) == <<ps[1], nextPeriod(nextPeriod(ps[Len(ps)], g), g)>>

\* runGranularMetric: first_period, last_period (exclusive end)
MetricWindow(ps, g) == <<ps[1], nextPeriod(ps[Len(ps)], g)>>

\* a runner that is never throttled
shouldRun_Always(name, minInterval) == TRUE

shouldRun(name, minInterval) ==
    \/ lastRunTime[name] = -1
    \/ now - lastRunTime[name] >= minInterval

MinInterval == IF ixKind = "batched" THEN batchedMinInterval ELSE immediateMinInterval

\* a guard that lets every step through
HasNewBlocks_Always(latestNum, w) == TRUE

\* the negation of: if r.latestBlockNum <= watermark.LastBlockNum { continue }
HasNewBlocks(latestNum, w) == ~(latestNum <= w)

\* a save that ignores catch-up
shouldSave_ThrottledOnly(name, isCaughtUp) ==
    \/ lastWatermarkSave[name] = -1
    \/ now - lastWatermarkSave[name] > saveInterval

\* shouldSave := time.Since(lastSave) > time.Second || isCaughtUp
shouldSave(name, isCaughtUp) ==
    \/ lastWatermarkSave[name] = -1
    \/ now - lastWatermarkSave[name] > saveInterval
    \/ isCaughtUp

\* what the syncer may report: a block number and a block time
Feed ==
    IF ixKind = "metrics"
    THEN {<<1, d * 24 + h>> : d \in 0..MaxDays, h \in {0, 1}}
    ELSE IF ixKind = "perblock"
    THEN {<<b, 0>> : b \in 1..MaxIxBlock}
    ELSE {<<b, 0>> : b \in (1..MaxIxBlock) \cup {incremental_batch_size + 5000}}

\* the wall clock moves by little, or to just below a throttle interval
TickSteps ==
    IF ixKind = "batched" THEN {1, batchedMinInterval - 1}
    ELSE IF ixKind = "immediate" THEN {1, immediateMinInterval - 1}
    ELSE {1, saveInterval}

OnBlock(b, t) ==
    /\ ixKind # "off"
    /\ ipc # "panicked"
    /\ latestBlockNum' = b
    /\ latestBlockTime' = t
    /\ feedMonotone' = (feedMonotone /\ b >= latestBlockNum /\ t >= latestBlockTime)
    /\ UNCHANGED <<rawHours, metrics, ixKind, ixStartBlock, watermarks, indexerWatermarks, lastRunTime,
                   lastWatermarkSave, now, ticks, incarnation, ipc, gi, periods,
                   blockNum, lastExec, execAt>>

\* wall-clock time passes (the loop's sleep, a slow query); the granular
\* metrics never read the wall clock
Tick(d) ==
    /\ ixKind \in {"batched", "immediate", "perblock"}
    /\ ticks < MaxTicks
    /\ now' = now + d
    /\ ticks' = ticks + 1
    /\ UNCHANGED <<rawHours, metrics, ixKind, ixStartBlock, latestBlockNum, latestBlockTime, watermarks,
                   indexerWatermarks, lastRunTime, lastWatermarkSave, incarnation, ipc,
                   gi, periods, blockNum, feedMonotone, lastExec, execAt>>

\* processBatchedIncrementals / processImmediateIncrementals up to the guard
IncCheck(name) ==
    /\ ixKind \in {"batched", "immediate"}
    /\ ipc = "idle"
    /\ latestBlockNum # 0
    /\ shouldRun(name, MinInterval)
    /\ LET w == IF watermarks[name].LastBlockNum = 0
                THEN 1 ELSE watermarks[name].LastBlockNum
       IN /\ watermarks' = [watermarks EXCEPT ![name].LastBlockNum = w]
          /\ IF HasNewBlocks(latestBlockNum, w)
             THEN ipc' = "run"
             ELSE ipc' = "idle"
    /\ UNCHANGED <<rawHours, metrics, ixKind, ixStartBlock, latestBlockNum, latestBlockTime,
                   indexerWatermarks, lastRunTime, lastWatermarkSave, now, ticks,
                   incarnation, gi, periods, blockNum, feedMonotone, lastExec, execAt>>

\* runIncrementalIndexer(file, type, watermark.LastBlockNum+1, r.latestBlockNum)
IncRun(name) ==
    /\ ipc = "run"
    /\ lastExec' = [lastExec EXCEPT
                      ![name] = <<watermarks[name].LastBlockNum + 1, latestBlockNum>>]
    /\ execAt' = [execAt EXCEPT ![name] = now]
    /\ ipc' = "advance"
    /\ UNCHANGED <<rawHours, metrics, ixKind, ixStartBlock, latestBlockNum, latestBlockTime, watermarks,
                   indexerWatermarks, lastRunTime, lastWatermarkSave, now, ticks,
                   incarnation, gi, periods, blockNum, feedMonotone>>

\* watermark.LastBlockNum = r.latestBlockNum; saveWatermark; lastRunTime
IncAdvance(name) ==
    /\ ipc = "advance"
    /\ watermarks' = [watermarks EXCEPT ![name].LastBlockNum = latestBlockNum]
    /\ indexerWatermarks' = [indexerWatermarks EXCEPT ![name] = watermarks'[name]]
    /\ lastRunTime' = [lastRunTime EXCEPT ![name] = now]
    /\ ipc' = "idle"
    /\ UNCHANGED <<rawHours, metrics, ixKind, ixStartBlock, latestBlockNum, latestBlockTime,
                   lastWatermarkSave, now, ticks, incarnation, gi, periods, blockNum, feedMonotone, lastExec, execAt>>

\* processGranularMetrics, one granularity, up to the empty-list check
MetricCheck ==
    /\ ixKind = "metrics"
    /\ ipc = "idle"
    /\ latestBlockNum # 0
    /\ LET g == Granularities[gi]
           last == IF watermarks[g].LastPeriod = -1
                   THEN epoch ELSE watermarks[g].LastPeriod
           ps == getPeriodsToProcess(last, latestBlockTime, g)
       IN /\ watermarks' = [watermarks EXCEPT ![g].LastPeriod = last]
          /\ IF ps = <<>>
             THEN /\ gi' = (gi % Len(Granularities)) + 1
                  /\ UNCHANGED <<ipc, periods>>
             ELSE /\ ipc' = "mrun"
                  /\ periods' = ps
                  /\ gi' = gi
    /\ UNCHANGED <<rawHours, metrics, ixKind, ixStartBlock, latestBlockNum, latestBlockTime,
                   indexerWatermarks, lastRunTime, lastWatermarkSave, now, ticks,
                   incarnation, blockNum, feedMonotone, lastExec,
                   execAt>>

\* toStartOf<Granularity>(block_time)
toStartOf(h, g) == h - (h % PeriodLen(g))

\* the metric SQL: one row per period of the window that has a counted
\* record (GROUP BY period over the records of the window)
MetricRows(window, g) ==
    {<<g, toStartOf(h, g)>> : h \in {x \in rawHours : window[1] <= x /\ x < window[2]}}

\* runGranularMetric
MetricRun ==
    /\ ipc = "mrun"
    /\ LET g == Granularities[gi]
       IN /\ lastExec' = [lastExec EXCEPT ![g] = MetricWindow(periods, g)]
          /\ metrics' = metrics \cup MetricRows(MetricWindow(periods, g), g)
    /\ ipc' = "madvance"
    /\ UNCHANGED <<rawHours, ixKind, ixStartBlock, latestBlockNum, latestBlockTime, watermarks,
                   indexerWatermarks, lastRunTime, lastWatermarkSave, now, ticks,
                   incarnation, gi, periods, blockNum, feedMonotone, execAt>>

\* watermark.LastPeriod = periods[len(periods)-1]; saveWatermark
MetricAdvance ==
    /\ ipc = "madvance"
    /\ LET g == Granularities[gi]
       IN /\ watermarks' = [watermarks EXCEPT ![g].LastPeriod = periods[Len(periods)]]
          /\ indexerWatermarks' = [indexerWatermarks EXCEPT ![g] = watermarks'[g]]
    /\ gi' = (gi % Len(Granularities)) + 1
    /\ periods' = <<>>
    /\ ipc' = "idle"
    /\ UNCHANGED <<rawHours, metrics, ixKind, ixStartBlock, latestBlockNum, latestBlockTime,
                   lastRunTime, lastWatermarkSave, now, ticks, incarnation, blockNum, feedMonotone, lastExec, execAt>>

\* The largest value of the model's integers stands for 2^64 - 1, the
\* largest uint64: it exceeds every block number of the model.
MaxUint64 == 2^30 + (2^30 - 1)

\* x - y on uint64: a negative difference wraps around
Uint64Sub(x, y) == IF x >= y THEN x - y ELSE MaxUint64 - (y - x) + 1

\* a block number that leaves one block out
BatchBlock_Skip(minWatermark) == minWatermark + 2

\* blockNum := minWatermark + 1
BatchBlock(minWatermark) == minWatermark + 1

\* processIncrementalBatch: minimum watermark and the block to process
BatchStart ==
    /\ ixKind = "perblock"
    /\ ipc = "idle"
    /\ LET wms == [n \in Names |->
                     IF /\ \E i \in 1..Len(Indexers) : Indexers[i] = n
                        /\ watermarks[n].LastBlockNum = 0
                     THEN [watermarks[n] EXCEPT !.LastBlockNum = Uint64Sub(ixStartBlock, 1)]
                     ELSE watermarks[n]]
           RECURSIVE MinFrom(_, _)
           MinFrom(i, m) == IF i > Len(Indexers) THEN m
                            ELSE MinFrom(i + 1, Min(m, wms[Indexers[i]].LastBlockNum))
           minWatermark == MinFrom(1, latestBlockNum)
       IN /\ watermarks' = wms
          /\ IF minWatermark < latestBlockNum
             THEN /\ blockNum' = BatchBlock(minWatermark)
                  /\ gi' = 1
                  /\ ipc' = "ploop"
             ELSE UNCHANGED <<blockNum, gi, ipc>>
    /\ UNCHANGED <<rawHours, metrics, ixKind, ixStartBlock, latestBlockNum, latestBlockTime,
                   indexerWatermarks, lastRunTime, lastWatermarkSave, now, ticks,
                   incarnation, periods, feedMonotone, lastExec,
                   execAt>>

\* processIncrementalBatch: one indexer of the loop over blockNum
BatchIndexer ==
    /\ ipc = "ploop"
    /\ LET name == Indexers[gi]
           isCaughtUp == blockNum >= latestBlockNum
           save == shouldSave(name, isCaughtUp)
       IN IF watermarks[name].LastBlockNum >= blockNum
          THEN UNCHANGED <<watermarks, indexerWatermarks, lastWatermarkSave,
                           lastExec>>
          ELSE /\ lastExec' = [lastExec EXCEPT ![name] = <<blockNum, blockNum>>]
               /\ watermarks' = [watermarks EXCEPT ![name].LastBlockNum = blockNum]
               /\ IF save
                  THEN /\ indexerWatermarks' =
                              [indexerWatermarks EXCEPT ![name] = watermarks'[name]]
                       /\ lastWatermarkSave' = [lastWatermarkSave EXCEPT ![name] = now]
                  ELSE UNCHANGED <<indexerWatermarks, lastWatermarkSave>>
    /\ IF gi < Len(Indexers)
       THEN gi' = gi + 1 /\ ipc' = ipc
       ELSE gi' = 1 /\ ipc' = "idle"
    /\ UNCHANGED <<rawHours, metrics, ixKind, ixStartBlock, latestBlockNum, latestBlockTime,
                   lastRunTime, now, ticks, incarnation, periods, blockNum,
                   feedMonotone, execAt>>

\* the indexer SQL fails: panic(err) before the watermark is touched
IndexerSqlFails ==
    /\ \/ ipc \in {"run", "mrun"}
       \/ ipc = "ploop" /\ watermarks[Indexers[gi]].LastBlockNum < blockNum
    /\ ipc' = "panicked"
    /\ UNCHANGED <<rawHours, metrics, ixKind, ixStartBlock, latestBlockNum,
                   latestBlockTime, watermarks, indexerWatermarks, lastRunTime,
                   lastWatermarkSave, now, ticks, incarnation, gi, periods,
                   blockNum, feedMonotone, lastExec, execAt>>

\* saveWatermark fails: the watermark was assigned in memory just before,
\* then panic(err)
WatermarkSaveFails ==
    /\ \/ /\ ipc = "advance"
          /\ watermarks' = [watermarks EXCEPT
                               ![Indexers[1]].LastBlockNum = latestBlockNum]
          /\ UNCHANGED lastExec
       \/ /\ ipc = "madvance"
          /\ watermarks' = [watermarks EXCEPT
                               ![Granularities[gi]].LastPeriod = periods[Len(periods)]]
          /\ UNCHANGED lastExec
       \/ /\ ipc = "ploop"
          /\ watermarks[Indexers[gi]].LastBlockNum < blockNum
          /\ shouldSave(Indexers[gi], blockNum >= latestBlockNum)
          /\ lastExec' = [lastExec EXCEPT ![Indexers[gi]] = <<blockNum, blockNum>>]
          /\ watermarks' = [watermarks EXCEPT ![Indexers[gi]].LastBlockNum = blockNum]
    /\ ipc' = "panicked"
    /\ UNCHANGED <<rawHours, metrics, ixKind, ixStartBlock, latestBlockNum,
                   latestBlockTime, indexerWatermarks, lastRunTime,
                   lastWatermarkSave, now, ticks, incarnation, gi, periods,
                   blockNum, feedMonotone, execAt>>

\* a reload that starts every incremental indexer one block further on
loadWatermarks_Ahead ==
    [n \in Names |-> [indexerWatermarks[n] EXCEPT !.LastBlockNum = @ + 1]]

\* loadWatermarks: the rows of indexer_watermarks become the in-memory map
loadWatermarks == indexerWatermarks

\* the process dies (a panic of the runner, a kill) and is started again:
\* NewIndexRunner, loadWatermarks
IxCrash ==
    /\ ixKind # "off"
    /\ incarnation' = 1 - incarnation
    /\ watermarks' = loadWatermarks
    /\ latestBlockNum' = 0
    /\ latestBlockTime' = 0
    /\ lastRunTime' = [n \in Names |-> -1]
    /\ lastWatermarkSave' = [n \in Names |-> -1]
    /\ ipc' = "idle"
    /\ gi' = 1
    /\ periods' = <<>>
    /\ blockNum' = 0
    /\ feedMonotone' = TRUE
    /\ execAt' = [n \in Names |-> -1]
    /\ UNCHANGED <<rawHours, metrics, ixKind, ixStartBlock, indexerWatermarks, now, ticks, lastExec>>

\* a new runner over an empty indexer_watermarks table
IndexInitState ==
    /\ ixKind \in {"metrics", "batched", "immediate", "perblock"}
    /\ ixStartBlock \in (IF ixKind = "perblock" THEN {1, 2} ELSE {0})
    /\ latestBlockNum = 0
    /\ latestBlockTime = 0
    /\ watermarks = [n \in Names |-> ZeroWatermark]
    /\ indexerWatermarks = [n \in Names |-> ZeroWatermark]
    /\ lastRunTime = [n \in Names |-> -1]
    /\ lastWatermarkSave = [n \in Names |-> -1]
    /\ now = 0
    /\ ticks = 0
    /\ incarnation = 0
    /\ ipc = "idle"
    /\ gi = 1
    /\ periods = <<>>
    /\ blockNum = 0
    /\ feedMonotone = TRUE
    /\ lastExec = [n \in Names |-> <<>>]
    /\ execAt = [n \in Names |-> -1]
    /\ rawHours \in (IF ixKind = "metrics" THEN {{}, {1}} ELSE {{}})
    /\ metrics = {}

\* a new block-by-block runner with any start block, 0 included
MaxStartBlock == 2

BlocksInitState ==
    /\ ixKind = "perblock"
    /\ ixStartBlock \in 0..MaxStartBlock
    /\ latestBlockNum = 0
    /\ latestBlockTime = 0
    /\ watermarks = [n \in Names |-> ZeroWatermark]
    /\ indexerWatermarks = [n \in Names |-> ZeroWatermark]
    /\ lastRunTime = [n \in Names |-> -1]
    /\ lastWatermarkSave = [n \in Names |-> -1]
    /\ now = 0
    /\ ticks = 0
    /\ incarnation = 0
    /\ ipc = "idle"
    /\ gi = 1
    /\ periods = <<>>
    /\ blockNum = 0
    /\ feedMonotone = TRUE
    /\ lastExec = [n \in Names |-> <<>>]
    /\ execAt = [n \in Names |-> -1]
    /\ rawHours = {}
    /\ metrics = {}

\* no index runner
IndexIdle ==
    /\ ixKind = "off"
    /\ ixStartBlock = 0
    /\ latestBlockNum = 0
    /\ latestBlockTime = 0
    /\ watermarks = <<>>
    /\ indexerWatermarks = <<>>
    /\ lastRunTime = <<>>
    /\ lastWatermarkSave = <<>>
    /\ now = 0
    /\ ticks = 0
    /\ incarnation = 0
    /\ ipc = "off"
    /\ gi = 0
    /\ periods = <<>>
    /\ blockNum = 0
    /\ feedMonotone = TRUE
    /\ lastExec = <<>>
    /\ execAt = <<>>
    /\ rawHours = {}
    /\ metrics = {}


(***************************************************************************)
(* The ingest process (main.go, RunIngest in cmd_wipe.go): one goroutine   *)
(* per configured chain runs s.Start() and s.Wait() under a deferred       *)
(* recover(); a signal handler goroutine calls os.Exit(1).                 *)
(***************************************************************************)
VARIABLES
    procState,      \* "off", "running", "exited"
    exitCode,       \* exit status of the process (-1 while it runs)
    sigReceived,    \* a signal was delivered to sigChan
    task,           \* per configured chain: position of its goroutine
    unitsDone       \* per configured chain: units of work completed

procVars == <<procState, exitCode, sigReceived, task, unitsDone>>

NumConfigs == 2
MaxUnits == 2
Configs == 1..NumConfigs

\* s.Start() returned: the goroutine blocks in s.Wait() while the syncer works
TaskStarted(c) ==
    /\ procState = "running"
    /\ task[c] = "created"
    /\ task' = [task EXCEPT ![c] = "idle"]
    /\ UNCHANGED <<procState, exitCode, sigReceived, unitsDone>>

\* the syncer takes up its next unit of work (a window, an indexer step)
UnitBegin(c) ==
    /\ procState = "running"
    /\ task[c] = "idle"
    /\ unitsDone[c] < MaxUnits
    /\ task' = [task EXCEPT ![c] = "busy"]
    /\ UNCHANGED <<procState, exitCode, sigReceived, unitsDone>>

UnitEnd(c) ==
    /\ procState = "running"
    /\ task[c] = "busy"
    /\ task' = [task EXCEPT ![c] = "idle"]
    /\ unitsDone' = [unitsDone EXCEPT ![c] = @ + 1]
    /\ UNCHANGED <<procState, exitCode, sigReceived>>

\* deferred function of the per-chain goroutine after a panic in s.Start():
\* recover() returns the panic value, it is logged, wg.Done() is called
RunIngest_recover(c) == [task EXCEPT ![c] = "recovered"]

\* a panic inside s.Start(), on the per-chain goroutine
TaskPanics(c) ==
    /\ procState = "running"
    /\ task[c] = "created"
    /\ task' = RunIngest_recover(c)
    /\ UNCHANGED <<procState, exitCode, sigReceived, unitsDone>>

\* a panic on a goroutine the syncer spawned itself: no recover() on its
\* stack, the Go runtime ends the process with status 2
ChildPanics(c) ==
    /\ procState = "running"
    /\ task[c] = "busy"
    /\ procState' = "exited"
    /\ exitCode' = 2
    /\ UNCHANGED <<sigReceived, task, unitsDone>>

\* wg.Wait() returns when every per-chain goroutine has called wg.Done()
RunIngestReturns ==
    /\ procState = "running"
    /\ \A c \in Configs : task[c] = "recovered"
    /\ procState' = "exited"
    /\ exitCode' = 0
    /\ UNCHANGED <<sigReceived, task, unitsDone>>

\* the signal handler: sig := <-sigChan; log; os.Exit(1)
SignalHandler ==
    /\ procState = "running"
    /\ sigReceived' = TRUE
    /\ procState' = "exited"
    /\ exitCode' = 1
    /\ UNCHANGED <<task, unitsDone>>

ProcInitState ==
    /\ procState = "running"
    /\ exitCode = -1
    /\ sigReceived = FALSE
    /\ task = [c \in Configs |-> "created"]
    /\ unitsDone = [c \in Configs |-> 0]

ProcIdle ==
    /\ procState = "off"
    /\ exitCode = -1
    /\ sigReceived = FALSE
    /\ task = <<>>
    /\ unitsDone = <<>>

(***************************************************************************)
(* One call of InsertPChainTxs (ingest.go) on a list of blocks, step by    *)
(* step.  allTxs is the concatenation of the blocks' transactions; a batch *)
(* is the slice allTxs[i:end] and is recorded as the pair <<i, end>>.      *)
(***************************************************************************)
VARIABLES
    insBlocks,      \* the argument: number of transactions of each block
    insPc,          \* "off", "collect", "loop", "ok" (nil returned), "err"
    insN,           \* len(allTxs)
    insI,           \* the loop variable i
    insSent         \* the batches sent so far, as slices <<i, end>> of allTxs

insVars == <<insBlocks, insPc, insN, insI, insSent>>

MaxInsBlocks == 2

\* transaction counts of a block that straddle the batch size
TxCounts == {0, 1, MaxTxsPerInsertBatch - 1, MaxTxsPerInsertBatch, MaxTxsPerInsertBatch + 1}

\* len(allTxs) after the collecting loop over the blocks
RECURSIVE CollectLen(_)
CollectLen(blocks) ==
    IF blocks = <<>> THEN 0 ELSE Head(blocks) + CollectLen(Tail(blocks))

InsertCollect ==
    /\ insPc = "collect"
    /\ insN' = CollectLen(insBlocks)
    /\ insPc' = IF Len(insBlocks) = 0 THEN "ok" ELSE "loop"
    /\ UNCHANGED <<insBlocks, insI, insSent>>

\* an upper slice bound that is not clamped to len(allTxs)
ChunkEnd_Unclamped(i, n) == i + MaxTxsPerInsertBatch

\* end := i + MaxTxsPerInsertBatch; if end > len(allTxs) { end = len(allTxs) }
ChunkEnd(i, n) == Min(i + MaxTxsPerInsertBatch, n)

\* one iteration: PrepareBatch, Append of the chunk, Send
InsertSendBatch ==
    /\ insPc = "loop"
    /\ insI < insN
    /\ insSent' = Append(insSent, <<insI, ChunkEnd(insI, insN)>>)
    /\ insI' = insI + MaxTxsPerInsertBatch
    /\ UNCHANGED <<insBlocks, insPc, insN>>

\* PrepareBatch, Append or Send of the current chunk fails: the error is returned
InsertBatchFails ==
    /\ insPc = "loop"
    /\ insI < insN
    /\ insPc' = "err"
    /\ UNCHANGED <<insBlocks, insN, insI, insSent>>

InsertReturn ==
    /\ insPc = "loop"
    /\ insI >= insN
    /\ insPc' = "ok"
    /\ UNCHANGED <<insBlocks, insN, insI, insSent>>

InsInitState ==
    /\ insBlocks \in UNION {[1..k -> TxCounts] : k \in 0..MaxInsBlocks}
    /\ insPc = "collect"
    /\ insN = 0
    /\ insI = 0
    /\ insSent = <<>>

InsIdle ==
    /\ insBlocks = <<>>
    /\ insPc = "off"
    /\ insN = 0
    /\ insI = 0
    /\ insSent = <<>>

(***************************************************************************)
(* One run of SyncL1ValidatorRefunds (ingest.go) for one L1 validator.     *)
(* Times are seconds; the block of a transaction carries its time as its   *)
(* number.  A DisableL1Validator transaction is identified by its time.    *)
(***************************************************************************)
VARIABLES
    rfCreated,      \* created_time of the validator in l1_validator_history
    rfHistory,      \* the validator is found in l1_validator_history / _state
    rfDisables,     \* block times of its DisableL1Validator txs in p_chain_txs
    rfDeposits,     \* l1_validator_balance_txs: block time -> amount (0 = no row)
    rfPc,           \* "off", "query", "calc", "insert", "done", "err"
    rfTxs,          \* the refunds slice: disable times, ascending
    rfI,            \* number of refunds the calculating loop has handled
    rfAmount,       \* refunds[i].RefundAmount (0 until calculated)
    rfSubnet,       \* refunds[i].SubnetID != ""
    rfRefunds       \* rows of l1_validator_refunds: <<disable time, amount>>

refundVars == <<rfCreated, rfHistory, rfDisables, rfDeposits, rfPc, rfTxs, rfI,
                rfAmount, rfSubnet, rfRefunds>>

MaxTime == 3
minFeeRate == 512
Times == 1..MaxTime
Amounts == {0, minFeeRate, 2 * minFeeRate + 1}

RECURSIVE SortedSeq(_)
SortedSeq(S) ==
    IF S = {} THEN <<>>
    ELSE LET m == CHOOSE x \in S : \A y \in S : x <= y
         IN <<m>> \o SortedSeq(S \ {m})

RECURSIVE SumOver(_, _)
SumOver(f, S) ==
    IF S = {} THEN 0
    ELSE LET x == CHOOSE y \in S : TRUE IN f[x] + SumOver(f, S \ {x})

\* SELECT COALESCE(max(block_number), 0) FROM l1_validator_refunds
LastSyncedBlock ==
    IF rfRefunds = {} THEN 0
    ELSE CHOOSE b \in {r[1] : r \in rfRefunds} : \A r \in rfRefunds : r[1] <= b

\* the DisableL1Validator txs with block_number > lastSyncedBlock, ascending
RefundQuery ==
    /\ rfPc = "query"
    /\ rfTxs' = SortedSeq({t \in rfDisables : t > LastSyncedBlock})
    /\ rfAmount' = [i \in 1..Len(rfTxs') |-> 0]
    /\ rfSubnet' = [i \in 1..Len(rfTxs') |-> FALSE]
    /\ rfI' = 0
    /\ rfPc' = IF Len(rfTxs') = 0 THEN "done" ELSE "calc"
    /\ UNCHANGED <<rfCreated, rfHistory, rfDisables, rfDeposits, rfRefunds>>

\* MAX(block_time) of the earlier disables of the validator (0: none)
PreviousDisable(T) ==
    LET earlier == {t \in rfDisables : t < T}
    IN IF earlier = {} THEN 0 ELSE CHOOSE t \in earlier : \A u \in earlier : u <= t

\* start of the validation period that the disable at T ends
StartTime(T) == IF PreviousDisable(T) > 0 THEN PreviousDisable(T) ELSE rfCreated

\* SUM(amount) over the period: from the creation time on (>=) in the first
\* period, after the previous disable (>) in a later one, up to T (<=)
TotalDeposits(T) ==
    SumOver(rfDeposits,
            {t \in Times : /\ IF PreviousDisable(T) > 0 THEN t > StartTime(T)
                                                         ELSE t >= StartTime(T)
                           /\ t <= T})

\* the difference without the comparison in front of it
RefundOf_Unclamped(total, fees) == total - fees

\* if feesConsumed >= totalDeposits { return 0 }; refund := totalDeposits - feesConsumed
RefundOf(total, fees) == IF fees >= total THEN 0 ELSE total - fees

\* feesConsumed := uint64(disableTime.Sub(startTime).Seconds()) * minFeeRate.
\* A Duration holds at most 2^63 ns, so the product of a non-negative
\* duration stays far below 2^64.  The conversion of a negative float to
\* uint64 is implementation-dependent: every value the later comparison and
\* subtraction can tell apart is a possible outcome.
FeesConsumed(T, start, total) ==
    IF T >= start THEN {(T - start) * minFeeRate} ELSE 0..(total + 1)

\* the outcomes of calculateRefundFromDeposits for the disable at T
calculateRefundFromDeposits(T) ==
    {RefundOf(TotalDeposits(T), fees) :
        fees \in FeesConsumed(T, StartTime(T), TotalDeposits(T))}

\* one iteration of the loop over refunds
RefundCalc ==
    /\ rfPc = "calc"
    /\ rfI < Len(rfTxs)
    /\ rfI' = rfI + 1
    /\ IF rfHistory
       THEN /\ rfSubnet' = [rfSubnet EXCEPT ![rfI + 1] = TRUE]
            /\ \E a \in calculateRefundFromDeposits(rfTxs[rfI + 1]) :
                  rfAmount' = [rfAmount EXCEPT ![rfI + 1] = a]
       ELSE UNCHANGED <<rfSubnet, rfAmount>>
    /\ UNCHANGED <<rfCreated, rfHistory, rfDisables, rfDeposits, rfPc, rfTxs, rfRefunds>>

RefundCalcDone ==
    /\ rfPc = "calc"
    /\ rfI = Len(rfTxs)
    /\ rfPc' = "insert"
    /\ UNCHANGED <<rfCreated, rfHistory, rfDisables, rfDeposits, rfTxs, rfI,
                   rfAmount, rfSubnet, rfRefunds>>

\* refunds appended to the batch: if r.SubnetID == "" || r.RefundAmount == 0 { continue }
RefundBatch ==
    {<<rfTxs[i], rfAmount[i]>> : i \in {j \in 1..Len(rfTxs) : rfSubnet[j] /\ rfAmount[j] # 0}}

RefundInsert ==
    /\ rfPc = "insert"
    /\ rfRefunds' = rfRefunds \cup RefundBatch
    /\ rfPc' = "done"
    /\ UNCHANGED <<rfCreated, rfHistory, rfDisables, rfDeposits, rfTxs, rfI,
                   rfAmount, rfSubnet>>

\* PrepareBatch, Append or Send fails: nothing is written
RefundInsertFails ==
    /\ rfPc = "insert"
    /\ rfPc' = "err"
    /\ UNCHANGED <<rfCreated, rfHistory, rfDisables, rfDeposits, rfTxs, rfI,
                   rfAmount, rfSubnet, rfRefunds>>

RefundInitState ==
    /\ rfCreated \in Times
    /\ rfHistory \in BOOLEAN
    /\ rfDisables \in SUBSET Times
    /\ rfDeposits \in [Times -> Amounts]
    /\ rfPc = "query"
    /\ rfTxs = <<>>
    /\ rfI = 0
    /\ rfAmount = <<>>
    /\ rfSubnet = <<>>
    /\ rfRefunds = {}

RefundIdle ==
    /\ rfCreated = 0
    /\ rfHistory = FALSE
    /\ rfDisables = {}
    /\ rfDeposits = <<>>
    /\ rfPc = "off"
    /\ rfTxs = <<>>
    /\ rfI = 0
    /\ rfAmount = <<>>
    /\ rfSubnet = <<>>
    /\ rfRefunds = {}

(***************************************************************************)
(* The validator syncer (validator_syncer.go): sync cycles of syncOnce on  *)
(* the l1_validator_state table.  vsActive holds, per subnet, the          *)
(* validators whose newest row has active = true.                          *)
(***************************************************************************)
VARIABLES
    vsPc,           \* position of syncOnce
    vsQueue,        \* subnets still to be synced in the current position
    vsSub,          \* position of syncSubnetValidators: "fetch", "insert", "mark"
    vsSnap,         \* validators of the RPC response being processed
    activeValidationIDs,  \* those of them that ParseValidatorInfo parsed
    vsActive,       \* l1_validator_state: subnet -> validators stored as active
    vsLog           \* steps the current cycle has run: <<step, subnet>>

valVars == <<vsPc, vsQueue, vsSub, vsSnap, activeValidationIDs, vsActive,
             vsLog>>

MaxValidators == 2
Range(s) == {s[i] : i \in 1..Len(s)}
SelectIn(s, S) == SelectSeq(s, LAMBDA x : x \in S)
Validators == 1..MaxValidators
PrimaryNetwork == "primary"
\* the L1 subnets and the regular/elastic subnets, in the order of the queries
L1Subnets == <<"l1a">>
RegularSubnets == <<"reg">>
SubnetIds == {PrimaryNetwork} \cup Range(L1Subnets) \cup Range(RegularSubnets)

\* Step 0: InsertPrimaryNetwork, InsertPrimaryNetworkChains (errors are logged)
VsGenesis ==
    /\ vsPc = "genesis"
    /\ vsPc' = "discover"
    /\ vsLog' = Append(vsLog, <<"genesis", "-">>)
    /\ UNCHANGED <<vsQueue, vsSub, vsSnap, activeValidationIDs, vsActive>>

\* Steps 1, 2, 2.5: subnets, subnet chains and historical validators are
\* discovered from p_chain_txs; an error of steps 1 or 2 ends the cycle
VsDiscover(ok) ==
    /\ vsPc = "discover"
    /\ vsLog' = Append(vsLog, <<"discover", "-">>)
    /\ IF ok THEN /\ vsPc' = "primary"
                  /\ vsQueue' = <<PrimaryNetwork>>
                  /\ vsSub' = "fetch"
             ELSE /\ vsPc' = "failed"
                  /\ UNCHANGED <<vsQueue, vsSub>>
    /\ UNCHANGED <<vsSnap, activeValidationIDs, vsActive>>

\* syncSubnetValidators returns: the loop goes on with the next subnet
SubnetReturn ==
    /\ vsQueue' = Tail(vsQueue)
    /\ vsSub' = "fetch"
    /\ vsSnap' = {}
    /\ activeValidationIDs' = {}
    /\ vsPc' = IF Tail(vsQueue) # <<>> THEN vsPc
               ELSE IF vsPc = "primary" THEN "l1disc" ELSE "balance"

\* GetCurrentValidators fails: the error is returned and logged by syncOnce
SubnetFetchFails ==
    /\ vsPc \in {"primary", "subnets"}
    /\ vsQueue # <<>>
    /\ vsSub = "fetch"
    /\ SubnetReturn
    /\ UNCHANGED <<vsActive, vsLog>>

\* GetCurrentValidators answers with the validators S; an empty response
\* returns (0, nil) at once.  ParseValidatorInfo succeeds for the entries
\* P: only they get into states and activeValidationIDs, and
\* InsertValidatorStates is called if there is any
SubnetFetch(S, P) ==
    /\ vsPc \in {"primary", "subnets"}
    /\ vsQueue # <<>>
    /\ vsSub = "fetch"
    /\ P \subseteq S
    /\ vsLog' = Append(vsLog, <<"snapshot", Head(vsQueue)>>)
    /\ IF S = {}
       THEN SubnetReturn
       ELSE /\ vsSnap' = S
            /\ activeValidationIDs' = P
            /\ vsSub' = IF P = {} THEN "mark" ELSE "insert"
            /\ UNCHANGED <<vsPc, vsQueue>>
    /\ UNCHANGED vsActive

\* InsertValidatorStates: a row for every parsed validator, with
\* active = false for the L1 validators `zero` whose balance is 0
\* (ParseValidatorInfo); on an error syncSubnetValidators returns it
SubnetInsert(ok, zero) ==
    /\ vsPc \in {"primary", "subnets"}
    /\ vsSub = "insert"
    /\ zero \subseteq activeValidationIDs
    /\ zero # {} => Head(vsQueue) \in Range(L1Subnets)
    /\ ok \/ zero = {}
    /\ IF ok
       THEN /\ vsActive' = [vsActive EXCEPT ![Head(vsQueue)] = (@ \cup activeValidationIDs) \ zero]
            /\ vsSub' = "mark"
            /\ UNCHANGED <<vsPc, vsQueue, vsSnap, activeValidationIDs, vsLog>>
       ELSE /\ vsLog' = Append(vsLog, <<"insertfail", Head(vsQueue)>>)
            /\ SubnetReturn
            /\ UNCHANGED vsActive

\* a marking that deactivates nobody
MarkInactiveValidators_Noop(stored, activeIds) == stored

\* MarkInactiveValidators: nothing is done for an empty id list; else every
\* stored-active validator that is not in the list gets a row with active = false
MarkInactiveValidators(stored, activeIds) ==
    IF activeIds = {} THEN stored ELSE stored \cap activeIds

\* the marking; its error is logged only, syncSubnetValidators returns nil
SubnetMark(ok) ==
    /\ vsPc \in {"primary", "subnets"}
    /\ vsSub = "mark"
    /\ IF ok
       THEN /\ vsActive' = [vsActive EXCEPT
                              ![Head(vsQueue)] = MarkInactiveValidators(@, activeValidationIDs)]
            /\ vsLog' = Append(vsLog, <<"mark", Head(vsQueue)>>)
       ELSE /\ vsLog' = Append(vsLog, <<"markfail", Head(vsQueue)>>)
            /\ UNCHANGED vsActive
    /\ SubnetReturn

\* Steps 4 and 5: the L1 subnets and the regular/elastic subnets to sync are
\* read; an error ends the cycle.  Steps 6 and 7 then loop over l1 \o regular.
VsDiscoverSubnets(ok, l1, regular) ==
    /\ vsPc = "l1disc"
    /\ IF ok
       THEN /\ vsQueue' = SelectIn(L1Subnets, l1) \o SelectIn(RegularSubnets, regular)
            /\ vsPc' = IF l1 \cup regular = {} THEN "balance" ELSE "subnets"
       ELSE /\ vsPc' = "failed"
            /\ UNCHANGED vsQueue
    /\ UNCHANGED <<vsSub, vsSnap, activeValidationIDs, vsActive, vsLog>>

\* Step 8: SyncL1ValidatorBalanceTxs (an error is logged)
VsBalance ==
    /\ vsPc = "balance"
    /\ vsPc' = "refunds"
    /\ vsLog' = Append(vsLog, <<"balance", "-">>)
    /\ UNCHANGED <<vsQueue, vsSub, vsSnap, activeValidationIDs, vsActive>>

\* Step 9: SyncL1ValidatorRefunds (an error is logged)
VsRefunds ==
    /\ vsPc = "refunds"
    /\ vsPc' = "fees"
    /\ vsLog' = Append(vsLog, <<"refunds", "-">>)
    /\ UNCHANGED <<vsQueue, vsSub, vsSnap, activeValidationIDs, vsActive>>

\* Steps 10 and 11: CalculateL1FeeStats, InsertL1FeeStats, UpdatePerValidatorFeeStats
VsFees ==
    /\ vsPc = "fees"
    /\ vsPc' = "done"
    /\ vsLog' = Append(vsLog, <<"fees", "-">>)
    /\ UNCHANGED <<vsQueue, vsSub, vsSnap, activeValidationIDs, vsActive>>

\* Start: the ticker fires and the next cycle begins
VsTicker ==
    /\ vsPc \in {"done", "failed"}
    /\ vsPc' = "genesis"
    /\ vsLog' = <<>>
    /\ UNCHANGED <<vsQueue, vsSub, vsSnap, activeValidationIDs, vsActive>>

ValInitState ==
    /\ vsPc = "genesis"
    /\ vsQueue = <<>>
    /\ vsSub = "fetch"
    /\ vsSnap = {}
    /\ activeValidationIDs = {}
    /\ vsActive \in [SubnetIds -> SUBSET Validators]
    /\ vsLog = <<>>

ValIdle ==
    /\ vsPc = "off"
    /\ vsQueue = <<>>
    /\ vsSub = "fetch"
    /\ vsSnap = {}
    /\ activeValidationIDs = {}
    /\ vsActive = <<>>
    /\ vsLog = <<>>

(***************************************************************************)
(* The wipe command without --chain and --pchain (RunWipe and              *)
(* wipeCalculatedTables in cmd_wipe.go) on a database.                     *)
(***************************************************************************)
VARIABLES
    wAll,           \* the --all flag
    wTables,        \* the database: table -> "absent" or "rows" (it exists and holds its rows)
    wPc,            \* "off", "query", "drop", "done", "failed"
    wList,          \* the tables the command still has to drop
    wDropped        \* number of DROP TABLE statements executed

wipeVars == <<wAll, wTables, wPc, wList, wDropped>>

\* system.tables of the database in name order; the last one is a materialized view
TableNames == <<"chain_status", "indexer_watermarks", "p_chain_txs", "raw_blocks",
                "raw_logs", "raw_traces", "raw_txs", "sync_watermark", "metrics_mv">>
TableEngine(t) == IF t = "metrics_mv" THEN "MaterializedView" ELSE "MergeTree"

\* a keep list that lacks sync_watermark
keepTables_RawOnly(all) ==
    IF all THEN {} ELSE {"raw_blocks", "raw_txs", "raw_traces", "raw_logs", "p_chain_txs"}

\* keepTables: empty under --all
keepTables(all) ==
    IF all THEN {}
    ELSE {"raw_blocks", "raw_txs", "raw_traces", "raw_logs", "p_chain_txs", "sync_watermark"}

\* the query result (ORDER BY engine = 'MaterializedView' DESC, name) without
\* the kept tables
TablesToDrop ==
    LET here(t) == wTables[t] # "absent" /\ t \notin keepTables(wAll)
    IN SelectSeq(TableNames, LAMBDA t : here(t) /\ TableEngine(t) = "MaterializedView")
       \o SelectSeq(TableNames, LAMBDA t : here(t) /\ TableEngine(t) # "MaterializedView")

WipeQuery ==
    /\ wPc = "query"
    /\ wList' = TablesToDrop
    /\ wPc' = IF TablesToDrop = <<>> THEN "done" ELSE "drop"
    /\ UNCHANGED <<wAll, wTables, wDropped>>

\* DROP TABLE IF EXISTS of the next table of the list
WipeDrop ==
    /\ wPc = "drop"
    /\ wTables' = [wTables EXCEPT ![Head(wList)] = "absent"]
    /\ wList' = Tail(wList)
    /\ wDropped' = wDropped + 1
    /\ wPc' = IF Tail(wList) = <<>> THEN "done" ELSE "drop"
    /\ UNCHANGED wAll

\* a DROP fails: the error is returned and RunWipe ends with log.Fatalf
WipeDropFails ==
    /\ wPc = "drop"
    /\ wPc' = "failed"
    /\ UNCHANGED <<wAll, wTables, wList, wDropped>>

WipeInitState ==
    /\ wAll \in BOOLEAN
    /\ wTables \in [Range(TableNames) -> {"absent", "rows"}]
    /\ wPc = "query"
    /\ wList = <<>>
    /\ wDropped = 0

WipeIdle ==
    /\ wAll = FALSE
    /\ wTables = <<>>
    /\ wPc = "off"
    /\ wList = <<>>
    /\ wDropped = 0


(***************************************************************************)
(* Further components.                                                     *)
(***************************************************************************)

(***************************************************************************)
(* ValidatorSyncer.Start and Stop (validator_syncer.go): the loop around   *)
(* syncOnce.  stopCh is closed under stopOnce; ticker.C buffers one tick;  *)
(* a select with several ready cases takes any of them.                    *)
(***************************************************************************)
VARIABLES startPc, stopCh, stopOnce, stopCalls, stopPanicked, ctxDone,
          tickerC, cyclesRun, cycleErrs

loopVars == <<startPc, stopCh, stopOnce, stopCalls, stopPanicked, ctxDone,
              tickerC, cyclesRun, cycleErrs>>

\* Stop calls and sync cycles of one behaviour
MaxStops == 2
MaxCycles == 3

\* Start: the initial syncOnce begins at once
Start ==
    /\ startPc = "new"
    /\ startPc' = "initial"
    /\ cyclesRun' = cyclesRun + 1
    /\ UNCHANGED <<stopCh, stopOnce, stopCalls, stopPanicked, ctxDone,
                   tickerC, cycleErrs>>

\* syncOnce returns, with or without an error; the error is logged.  After
\* the initial cycle the ticker is created.
syncOnceReturns(ok) ==
    /\ startPc \in {"initial", "cycle"}
    /\ startPc' = "select"
    /\ cycleErrs' = IF ok THEN cycleErrs ELSE cycleErrs + 1
    /\ UNCHANGED <<stopCh, stopOnce, stopCalls, stopPanicked, ctxDone,
                   tickerC, cyclesRun>>

\* the interval passes: the ticker puts a tick into its channel of
\* capacity 1, or drops it when the channel is full
TickerFires ==
    /\ startPc \in {"select", "cycle"}
    /\ tickerC = 0
    /\ tickerC' = 1
    /\ UNCHANGED <<startPc, stopCh, stopOnce, stopCalls, stopPanicked,
                   ctxDone, cyclesRun, cycleErrs>>

\* select, case <-ticker.C
SelectTick ==
    /\ startPc = "select"
    /\ tickerC = 1
    /\ cyclesRun < MaxCycles
    /\ tickerC' = 0
    /\ startPc' = "cycle"
    /\ cyclesRun' = cyclesRun + 1
    /\ UNCHANGED <<stopCh, stopOnce, stopCalls, stopPanicked, ctxDone,
                   cycleErrs>>

\* select, case <-vs.stopCh
SelectStop ==
    /\ startPc = "select"
    /\ stopCh = "closed"
    /\ startPc' = "returned"
    /\ UNCHANGED <<stopCh, stopOnce, stopCalls, stopPanicked, ctxDone,
                   tickerC, cyclesRun, cycleErrs>>

\* select, case <-ctx.Done()
SelectCtxDone ==
    /\ startPc = "select"
    /\ ctxDone
    /\ startPc' = "returned"
    /\ UNCHANGED <<stopCh, stopOnce, stopCalls, stopPanicked, ctxDone,
                   tickerC, cyclesRun, cycleErrs>>

\* Stop: stopOnce.Do(close(stopCh)); closing a closed channel panics
Stop ==
    /\ startPc # "off"
    /\ stopCalls < MaxStops
    /\ stopCalls' = stopCalls + 1
    /\ IF stopOnce
       THEN UNCHANGED <<stopOnce, stopCh, stopPanicked>>
       ELSE /\ stopOnce' = TRUE
            /\ stopCh' = "closed"
            /\ stopPanicked' = (stopPanicked \/ stopCh = "closed")
    /\ UNCHANGED <<startPc, ctxDone, tickerC, cyclesRun, cycleErrs>>

\* the context of Start is cancelled
CtxCancel ==
    /\ startPc # "off"
    /\ ~ctxDone
    /\ ctxDone' = TRUE
    /\ UNCHANGED <<startPc, stopCh, stopOnce, stopCalls, stopPanicked,
                   tickerC, cyclesRun, cycleErrs>>

\* NewValidatorSyncer
LoopInitState ==
    /\ startPc = "new"
    /\ stopCh = "open"
    /\ stopOnce = FALSE
    /\ stopCalls = 0
    /\ stopPanicked = FALSE
    /\ ctxDone = FALSE
    /\ tickerC = 0
    /\ cyclesRun = 0
    /\ cycleErrs = 0

\* no validator syncer
LoopIdle ==
    /\ startPc = "off"
    /\ stopCh = "open"
    /\ stopOnce = FALSE
    /\ stopCalls = 0
    /\ stopPanicked = FALSE
    /\ ctxDone = FALSE
    /\ tickerC = 0
    /\ cyclesRun = 0
    /\ cycleErrs = 0

(***************************************************************************)
(* SyncL1ValidatorBalanceTxs (ingest.go), once per sync cycle, on the      *)
(* tables l1_validator_history (validators with initial_balance > 0),      *)
(* p_chain_txs (IncreaseL1ValidatorBalance) and l1_validator_balance_txs.  *)
(* A row is <<validation id, block number>>.                               *)
(***************************************************************************)
VARIABLES blHeight, blHistory, blTopUps, blBalanceTxs, blPc, blTxs

balVars == <<blHeight, blHistory, blTopUps, blBalanceTxs, blPc, blTxs>>

\* P-chain blocks of one behaviour
MaxBalBlock == 3

\* a RegisterL1Validator / ConvertSubnetToL1 transaction in a new block,
\* written to l1_validator_history with its initial balance
RegisterL1Validator(v) ==
    /\ blPc # "off"
    /\ blHeight < MaxBalBlock
    /\ \A h \in blHistory : h[1] # v
    /\ blHeight' = blHeight + 1
    /\ blHistory' = blHistory \cup {<<v, blHeight + 1>>}
    /\ UNCHANGED <<blTopUps, blBalanceTxs, blPc, blTxs>>

\* an IncreaseL1ValidatorBalance transaction of a known validator
IncreaseL1ValidatorBalance(v) ==
    /\ blPc # "off"
    /\ blHeight < MaxBalBlock
    /\ \E h \in blHistory : h[1] = v
    /\ blHeight' = blHeight + 1
    /\ blTopUps' = blTopUps \cup {<<v, blHeight + 1>>}
    /\ UNCHANGED <<blHistory, blBalanceTxs, blPc, blTxs>>

\* the next sync cycle reaches SyncL1ValidatorBalanceTxs
BalanceSyncBegins ==
    /\ blPc = "idle"
    /\ blPc' = "query"
    /\ UNCHANGED <<blHeight, blHistory, blTopUps, blBalanceTxs, blTxs>>

\* SELECT COALESCE(max(block_number), 0) FROM l1_validator_balance_txs
BalLastSyncedBlock ==
    IF blBalanceTxs = {} THEN 0
    ELSE CHOOSE b \in {r[3] : r \in blBalanceTxs} :
            \A r \in blBalanceTxs : r[3] <= b

\* a first-sync test that looks at the initial deposits in every cycle
IsFirstSync_Always(lastSyncedBlock) == TRUE

\* if lastSyncedBlock == 0
IsFirstSync(lastSyncedBlock) == lastSyncedBlock = 0

\* the queries: top-ups above lastSyncedBlock and, on a first sync, the
\* initial deposits; a failed max() query leaves lastSyncedBlock 0
BalanceQuery(maxOk) ==
    /\ blPc = "query"
    /\ LET lastSyncedBlock == IF maxOk THEN BalLastSyncedBlock ELSE 0
           topUps == {<<t[1], "IncreaseL1ValidatorBalance", t[2]>> :
                         t \in {u \in blTopUps : u[2] > lastSyncedBlock}}
           initial == IF IsFirstSync(lastSyncedBlock)
                      THEN {<<h[1], "initial", h[2]>> : h \in blHistory}
                      ELSE {}
       IN /\ blTxs' = topUps \cup initial
          /\ blPc' = IF topUps \cup initial = {} THEN "idle" ELSE "insert"
    /\ UNCHANGED <<blHeight, blHistory, blTopUps, blBalanceTxs>>

\* a failed top-up or initial-deposit query: return the error
BalanceQueryFails ==
    /\ blPc = "query"
    /\ blPc' = "idle"
    /\ UNCHANGED <<blHeight, blHistory, blTopUps, blBalanceTxs, blTxs>>

\* InsertL1ValidatorBalanceTxs
InsertL1ValidatorBalanceTxs ==
    /\ blPc = "insert"
    /\ blBalanceTxs' = blBalanceTxs \cup blTxs
    /\ blTxs' = {}
    /\ blPc' = "idle"
    /\ UNCHANGED <<blHeight, blHistory, blTopUps>>

\* the insert fails: nothing is written
InsertBalanceTxsFails ==
    /\ blPc = "insert"
    /\ blTxs' = {}
    /\ blPc' = "idle"
    /\ UNCHANGED <<blHeight, blHistory, blTopUps, blBalanceTxs>>

\* empty tables before the first cycle
BalInitState ==
    /\ blHeight = 0
    /\ blHistory = {}
    /\ blTopUps = {}
    /\ blBalanceTxs = {}
    /\ blPc = "idle"
    /\ blTxs = {}

\* no balance sync
BalIdle ==
    /\ blHeight = 0
    /\ blHistory = {}
    /\ blTopUps = {}
    /\ blBalanceTxs = {}
    /\ blPc = "off"
    /\ blTxs = {}

(***************************************************************************)
(* The sync cycles of SyncL1ValidatorRefunds (ingest.go) over all          *)
(* validators: which DisableL1Validator transactions a cycle examines and  *)
(* for which of them it writes a row.  A transaction is its block number.  *)
(***************************************************************************)
VARIABLES rcHeight, rcDisables, rcRefundRows, rcPc, rcExamined, rcSkipped

rcVars == <<rcHeight, rcDisables, rcRefundRows, rcPc, rcExamined, rcSkipped>>

\* P-chain blocks of one behaviour
MaxRcBlock == 4

\* a DisableL1Validator transaction in a new block of p_chain_txs
DisableL1Validator ==
    /\ rcPc # "off"
    /\ rcHeight < MaxRcBlock
    /\ rcHeight' = rcHeight + 1
    /\ rcDisables' = rcDisables \cup {rcHeight + 1}
    /\ UNCHANGED <<rcRefundRows, rcPc, rcExamined, rcSkipped>>

\* the next sync cycle reaches SyncL1ValidatorRefunds: refunds is empty
RefundsSyncBegins ==
    /\ rcPc = "idle"
    /\ rcPc' = "cycle"
    /\ rcExamined' = {}
    /\ UNCHANGED <<rcHeight, rcDisables, rcRefundRows, rcSkipped>>

\* SELECT COALESCE(max(block_number), 0) FROM l1_validator_refunds
RcLastSyncedBlock ==
    IF rcRefundRows = {} THEN 0
    ELSE CHOOSE b \in rcRefundRows : \A r \in rcRefundRows : r <= b

\* a selection of the transactions that have no refund row
RefundCandidates_NoRow(lastSyncedBlock) == rcDisables \ rcRefundRows

\* WHERE tx_type = 'DisableL1Validator' AND block_number > lastSyncedBlock
RefundCandidates(lastSyncedBlock) == {b \in rcDisables : b > lastSyncedBlock}

\* one cycle that reaches the insert: the transactions in `written` get
\* their subnet, owner and a refund amount above 0, the others are skipped
\* (lookup or RPC failed, amount not computed or 0); a failed max() query
\* leaves lastSyncedBlock 0
SyncL1ValidatorRefunds(maxOk, written) ==
    /\ rcPc = "cycle"
    /\ LET lastSyncedBlock == IF maxOk THEN RcLastSyncedBlock ELSE 0
           refunds == RefundCandidates(lastSyncedBlock)
       IN /\ written \subseteq refunds
          /\ rcExamined' = refunds
          /\ rcRefundRows' = rcRefundRows \cup written
          /\ rcSkipped' = (rcSkipped \cup (refunds \ written)) \ rcRefundRows'
    /\ rcPc' = "idle"
    /\ UNCHANGED <<rcHeight, rcDisables>>

\* the cycle returns an error: the query or the batch fails, no row
SyncL1ValidatorRefundsFails ==
    /\ rcPc = "cycle"
    /\ rcPc' = "idle"
    /\ UNCHANGED <<rcHeight, rcDisables, rcRefundRows, rcExamined, rcSkipped>>

\* empty tables before the first cycle
RcInitState ==
    /\ rcHeight = 0
    /\ rcDisables = {}
    /\ rcRefundRows = {}
    /\ rcPc = "idle"
    /\ rcExamined = {}
    /\ rcSkipped = {}

\* no refund sync
RcIdle ==
    /\ rcHeight = 0
    /\ rcDisables = {}
    /\ rcRefundRows = {}
    /\ rcPc = "off"
    /\ rcExamined = {}
    /\ rcSkipped = {}

(***************************************************************************)
(* DiscoverAllSubnets and InsertSubnets (ingest.go), step 1 of a sync      *)
(* cycle, on p_chain_txs and the subnets table (raw_tables.sql:            *)
(* ReplacingMergeTree(last_updated), one row per subnet under FINAL).  A   *)
(* transaction is <<subnet, tx type, block number>>; the time of a block   *)
(* stands with its number.                                                 *)
(***************************************************************************)
VARIABLES snPc, snHeight, snTxs, subnets

snVars == <<snPc, snHeight, snTxs, subnets>>

\* P-chain blocks of one behaviour
MaxSnBlock == 3

SnSubnets == {"s1", "s2"}
txTypes == {"CreateChain", "AddSubnetValidator", "ConvertSubnetToL1", "TransformSubnet"}
Conversions == {"TransformSubnet", "ConvertSubnetToL1"}

\* no row in the subnets table
NoSubnet == [CreatedBlock |-> 0, SubnetType |-> "none", ConvertedBlock |-> 0]

\* a transaction that names a subnet, in a new block of p_chain_txs
SubnetTx(s, t) ==
    /\ snPc = "on"
    /\ snHeight < MaxSnBlock
    /\ snHeight' = snHeight + 1
    /\ snTxs' = snTxs \cup {<<s, t, snHeight + 1>>}
    /\ UNCHANGED <<snPc, subnets>>

\* SELECT COALESCE(max(created_block), 0) FROM subnets FINAL
lastProcessedBlock ==
    LET blocks == {subnets[s].CreatedBlock : s \in {x \in SnSubnets : subnets[x] # NoSubnet}}
    IN IF blocks = {} THEN 0 ELSE CHOOSE b \in blocks : \A c \in blocks : c <= b

MinOf(S) == CHOOSE b \in S : \A c \in S : b <= c
MaxOf(S) == CHOOSE b \in S : \A c \in S : c <= b

\* a scan of the four transaction types over all blocks
ScanFrom_Start(last) == 0

\* AND block_number > lastProcessedBlock
ScanFrom(last) == last

\* the entry of subnetsMap for subnet s after both passes (NoSubnet: none)
DiscoveredSubnet(s, last) ==
    LET seen == {x[3] : x \in {y \in snTxs : y[1] = s /\ y[3] > ScanFrom(last)}}
        conv == {y \in snTxs : y[1] = s /\ y[2] \in Conversions}
        convBlocks == {y[3] : y \in conv}
        lastConv == CHOOSE y \in conv : y[3] = MaxOf(convBlocks)
    IN IF seen = {} /\ conv = {} THEN NoSubnet
       ELSE [CreatedBlock |-> IF seen # {} THEN MinOf(seen) ELSE MinOf(convBlocks),
             SubnetType |-> IF conv = {} THEN "regular"
                            ELSE IF lastConv[2] = "TransformSubnet" THEN "elastic"
                            ELSE "l1",
             ConvertedBlock |-> IF conv = {} THEN 0 ELSE MaxOf(convBlocks)]

\* DiscoverAllSubnets, then InsertSubnets of every entry of the map; a
\* failed max() query leaves lastProcessedBlock 0
DiscoverAllSubnets(maxOk) ==
    /\ snPc = "on"
    /\ LET last == IF maxOk THEN lastProcessedBlock ELSE 0
       IN subnets' = [s \in SnSubnets |->
                         IF DiscoveredSubnet(s, last) = NoSubnet
                         THEN subnets[s] ELSE DiscoveredSubnet(s, last)]
    /\ UNCHANGED <<snPc, snHeight, snTxs>>

\* a query or the insert fails: syncOnce returns, nothing is written
DiscoverAllSubnetsFails ==
    /\ snPc = "on"
    /\ UNCHANGED <<snPc, snHeight, snTxs, subnets>>

\* no transaction, no subnet
SnInitState ==
    /\ snPc = "on"
    /\ snHeight = 0
    /\ snTxs = {}
    /\ subnets = [s \in SnSubnets |-> NoSubnet]

\* no subnet discovery
SnIdle ==
    /\ snPc = "off"
    /\ snHeight = 0
    /\ snTxs = {}
    /\ subnets = [s \in SnSubnets |-> NoSubnet]

(***************************************************************************)
(* wipe --all --chain=N (RunWipe and wipeChainData in cmd_wipe.go).  The   *)
(* database is, per table, the set of chains that have rows in it.         *)
(***************************************************************************)
VARIABLES wcPc, wcStmt, wcChain, wcDb, wcBefore

wcVars == <<wcPc, wcStmt, wcChain, wcDb, wcBefore>>

WcChains == {1, 2}

\* the tables that hold state of one chain
ChainTables == {"raw_blocks", "raw_txs", "raw_traces", "raw_logs",
                "sync_watermark", "chain_status", "indexer_watermarks"}

\* a list of statements that also deletes the indexer watermarks
wipeChainStatements_WithIndexers ==
    <<"raw_blocks", "raw_txs", "raw_traces", "raw_logs", "sync_watermark",
      "chain_status", "indexer_watermarks">>

\* the statements of wipeChainData in order: ALTER TABLE ... DELETE WHERE
\* chain_id = N on the four raw tables and chain_status, DELETE FROM
\* sync_watermark WHERE chain_id = N
wipeChainStatements ==
    <<"raw_blocks", "raw_txs", "raw_traces", "raw_logs", "sync_watermark",
      "chain_status">>

\* the next statement deletes the rows of chain N from its table
WipeChainDelete ==
    /\ wcPc = "run"
    /\ wcDb' = [wcDb EXCEPT ![wipeChainStatements[wcStmt]] = @ \ {wcChain}]
    /\ wcStmt' = wcStmt + 1
    /\ wcPc' = IF wcStmt = Len(wipeChainStatements) THEN "done" ELSE "run"
    /\ UNCHANGED <<wcChain, wcBefore>>

\* the statement fails: wipeChainData returns the error, log.Fatalf
WipeChainDeleteFails ==
    /\ wcPc = "run"
    /\ wcPc' = "err"
    /\ UNCHANGED <<wcStmt, wcChain, wcDb, wcBefore>>

\* RunWipe(all = true, chainID = N > 0, pchain = false) on any database
WcInitState ==
    /\ wcPc = "run"
    /\ wcStmt = 1
    /\ wcChain \in WcChains
    /\ wcDb \in [ChainTables -> SUBSET WcChains]
    /\ wcBefore = wcDb

\* no wipe of a chain
WcIdle ==
    /\ wcPc = "off"
    /\ wcStmt = 1
    /\ wcChain = 0
    /\ wcDb = [t \in ChainTables |-> {}]
    /\ wcBefore = wcDb

(***************************************************************************)
(* End of the further components.                                          *)
(***************************************************************************)

(***************************************************************************)
(* Specifications: one per component; the other components do not move.    *)
(***************************************************************************)
\* the P-chain derivations, the ingest process and the wipe command
pVars == <<procVars, insVars, refundVars, valVars, wipeVars>>
PIdle == ProcIdle /\ InsIdle /\ RefundIdle /\ ValIdle /\ WipeIdle

\* the syncer, fetcher, backoff, cache command and index runner
coreVars == <<syncVars, fetchVars, backoffVars, cacheVars, indexVars>>
CoreIdle == SyncIdle /\ FetchIdle /\ BackoffIdle /\ CacheIdle /\ IndexIdle

\* The validator syncer loop and the further P-chain derivations and commands.
qVars == <<loopVars, balVars, rcVars, snVars, wcVars>>
QIdle == LoopIdle /\ BalIdle /\ RcIdle /\ SnIdle /\ WcIdle

notLoop == <<coreVars, pVars, balVars, rcVars, snVars, wcVars>>
notBal == <<coreVars, pVars, loopVars, rcVars, snVars, wcVars>>
notRc == <<coreVars, pVars, loopVars, balVars, snVars, wcVars>>
notSn == <<coreVars, pVars, loopVars, balVars, rcVars, wcVars>>
notWc == <<coreVars, pVars, loopVars, balVars, rcVars, snVars>>

\* all variables
vars == <<coreVars, pVars, qVars>>

notSync == <<fetchVars, backoffVars, cacheVars, indexVars, pVars, qVars>>
notFetch == <<syncVars, backoffVars, cacheVars, indexVars, pVars, qVars>>
notBackoff == <<syncVars, fetchVars, cacheVars, indexVars, pVars, qVars>>
notCache == <<syncVars, fetchVars, backoffVars, indexVars, pVars, qVars>>
notIndex == <<syncVars, fetchVars, backoffVars, cacheVars, pVars, qVars>>
notProc == <<coreVars, insVars, refundVars, valVars, wipeVars, qVars>>
notIns == <<coreVars, procVars, refundVars, valVars, wipeVars, qVars>>
notRefund == <<coreVars, procVars, insVars, valVars, wipeVars, qVars>>
notVal == <<coreVars, procVars, insVars, refundVars, wipeVars, qVars>>
notWipe == <<coreVars, procVars, insVars, refundVars, valVars, qVars>>

\* the Chain Syncer of the configured chain, the chain and the store
NextSync ==
    \/ \E c \in Chains : SyncInit(c) /\ UNCHANGED notSync
    \/ \E c \in Chains : SyncGetLatest(c) /\ UNCHANGED notSync
    \/ \E c \in Chains : SyncFetch(c) /\ UNCHANGED notSync
    \/ \E c \in Chains : SyncAppend(c) /\ UNCHANGED notSync
    \/ \E c \in Chains : SyncAppendFails(c) /\ UNCHANGED notSync
    \/ \E c \in Chains : SyncStatus(c) /\ UNCHANGED notSync
    \/ \E c \in Chains : SyncCommit(c) /\ UNCHANGED notSync
    \/ \E c \in Chains : SyncError(c) /\ UNCHANGED notSync
    \/ SyncCrash /\ UNCHANGED notSync
    \/ \E c \in Chains : ChainGrows(c) /\ UNCHANGED notSync
    \/ Merge /\ UNCHANGED notSync

InitSync == SyncInitState /\ FetchIdle /\ BackoffIdle /\ CacheIdle /\ IndexIdle /\ PIdle /\ QIdle

SpecSync == InitSync /\ [][NextSync]_vars

\* one FetchBlockRange / FetchBlockRangeJSON call on a fetcher
NextFetch ==
    \/ \E c \in {1}, from \in Heights, to \in Heights, cacheOk \in BOOLEAN :
          FetchStart(c, from, to, cacheOk) /\ UNCHANGED notFetch
    \/ \E c \in {1}, o \in Outcomes : FetchScanLookback(c, o) /\ UNCHANGED notFetch
    \/ \E c \in {1}, h \in Heights : GorAcquire(c, h) /\ UNCHANGED notFetch
    \/ \E c \in {1}, h \in Heights, o \in Outcomes : GorRpcDone(c, h, o) /\ UNCHANGED notFetch
    \/ \E c \in {1}, h \in Heights : GorRetry(c, h) /\ UNCHANGED notFetch
    \/ \E c \in {1}, h \in Heights, o \in Outcomes : GorLookback(c, h, o) /\ UNCHANGED notFetch
    \/ \E c \in {1} : FetchReturn(c) /\ UNCHANGED notFetch

InitFetch == FetchInitState /\ SyncIdle /\ BackoffIdle /\ CacheIdle /\ IndexIdle /\ PIdle /\ QIdle

SpecFetch == InitFetch /\ [][NextFetch]_vars

\* concurrent calls on one fetcher
NextFetchConc ==
    \/ \E c \in Calls, from \in Heights, to \in Heights, cacheOk \in BOOLEAN :
          FetchStart(c, from, to, cacheOk) /\ UNCHANGED notFetch
    \/ \E c \in Calls, o \in Outcomes : FetchScanLookback(c, o) /\ UNCHANGED notFetch
    \/ \E c \in Calls, h \in Heights : GorAcquire(c, h) /\ UNCHANGED notFetch
    \/ \E c \in Calls, h \in Heights, o \in Outcomes : GorRpcDone(c, h, o) /\ UNCHANGED notFetch
    \/ \E c \in Calls, h \in Heights : GorRetry(c, h) /\ UNCHANGED notFetch
    \/ \E c \in Calls, h \in Heights, o \in Outcomes : GorLookback(c, h, o) /\ UNCHANGED notFetch
    \/ \E c \in Calls : FetchReturn(c) /\ UNCHANGED notFetch

SpecFetchConc == InitFetch /\ [][NextFetchConc]_vars

\* one retrying RPC call
NextBackoff == BackoffRetry /\ UNCHANGED notBackoff

InitBackoff == BackoffInitState /\ SyncIdle /\ FetchIdle /\ CacheIdle /\ IndexIdle /\ PIdle /\ QIdle

SpecBackoff == InitBackoff /\ [][NextBackoff]_vars

\* one run of the cache command
NextCache ==
    \/ CacheStart /\ UNCHANGED notCache
    \/ CacheSpawn /\ UNCHANGED notCache
    \/ \E ch \in inFlight : ChunkFails(ch) /\ UNCHANGED notCache
    \/ \E ch \in inFlight, setOk \in BOOLEAN : ChunkDone(ch, setOk) /\ UNCHANGED notCache
    \/ CacheFinish /\ UNCHANGED notCache

InitCache == CacheInitState /\ SyncIdle /\ FetchIdle /\ BackoffIdle /\ IndexIdle /\ PIdle /\ QIdle

SpecCache == InitCache /\ [][NextCache]_vars

\* the index runner's task, the syncer's OnBlock calls, the wall clock
NextIndex ==
    \/ \E f \in Feed : OnBlock(f[1], f[2]) /\ UNCHANGED notIndex
    \/ \E d \in TickSteps : Tick(d) /\ UNCHANGED notIndex
    \/ IncCheck(Indexers[1]) /\ UNCHANGED notIndex
    \/ IncRun(Indexers[1]) /\ UNCHANGED notIndex
    \/ IncAdvance(Indexers[1]) /\ UNCHANGED notIndex
    \/ MetricCheck /\ UNCHANGED notIndex
    \/ MetricRun /\ UNCHANGED notIndex
    \/ MetricAdvance /\ UNCHANGED notIndex
    \/ BatchStart /\ UNCHANGED notIndex
    \/ BatchIndexer /\ UNCHANGED notIndex
    \/ IxCrash /\ UNCHANGED notIndex

InitIndex == IndexInitState /\ SyncIdle /\ FetchIdle /\ BackoffIdle /\ CacheIdle /\ PIdle /\ QIdle

SpecIndex == InitIndex /\ [][NextIndex]_vars

\* the same with failing indexer SQL and failing watermark saves
NextIndexFaults ==
    \/ \E f \in Feed : OnBlock(f[1], f[2]) /\ UNCHANGED notIndex
    \/ \E d \in TickSteps : Tick(d) /\ UNCHANGED notIndex
    \/ IncCheck(Indexers[1]) /\ UNCHANGED notIndex
    \/ IncRun(Indexers[1]) /\ UNCHANGED notIndex
    \/ IncAdvance(Indexers[1]) /\ UNCHANGED notIndex
    \/ MetricCheck /\ UNCHANGED notIndex
    \/ MetricRun /\ UNCHANGED notIndex
    \/ MetricAdvance /\ UNCHANGED notIndex
    \/ BatchStart /\ UNCHANGED notIndex
    \/ BatchIndexer /\ UNCHANGED notIndex
    \/ IndexerSqlFails /\ UNCHANGED notIndex
    \/ WatermarkSaveFails /\ UNCHANGED notIndex
    \/ IxCrash /\ UNCHANGED notIndex

SpecIndexFaults == InitIndex /\ [][NextIndexFaults]_vars

\* the block-by-block runner of incremental.go alone, with its failures
NextIndexBlocks ==
    \/ \E f \in Feed : OnBlock(f[1], f[2]) /\ UNCHANGED notIndex
    \/ \E d \in TickSteps : Tick(d) /\ UNCHANGED notIndex
    \/ BatchStart /\ UNCHANGED notIndex
    \/ BatchIndexer /\ UNCHANGED notIndex
    \/ IndexerSqlFails /\ UNCHANGED notIndex
    \/ WatermarkSaveFails /\ UNCHANGED notIndex
    \/ IxCrash /\ UNCHANGED notIndex

InitIndexBlocks == BlocksInitState /\ SyncIdle /\ FetchIdle /\ BackoffIdle /\ CacheIdle /\ PIdle /\ QIdle

SpecIndexBlocks == InitIndexBlocks /\ [][NextIndexBlocks]_vars

\* one ingest process with its per-chain goroutines and the signal handler
NextProc ==
    \/ \E c \in Configs : TaskStarted(c) /\ UNCHANGED notProc
    \/ \E c \in Configs : UnitBegin(c) /\ UNCHANGED notProc
    \/ \E c \in Configs : UnitEnd(c) /\ UNCHANGED notProc
    \/ \E c \in Configs : TaskPanics(c) /\ UNCHANGED notProc
    \/ \E c \in Configs : ChildPanics(c) /\ UNCHANGED notProc
    \/ RunIngestReturns /\ UNCHANGED notProc
    \/ SignalHandler /\ UNCHANGED notProc

InitProc == ProcInitState /\ CoreIdle /\ InsIdle /\ RefundIdle /\ ValIdle /\ WipeIdle /\ QIdle

SpecProc == InitProc /\ [][NextProc]_vars

\* one call of InsertPChainTxs
NextInsert ==
    \/ InsertCollect /\ UNCHANGED notIns
    \/ InsertSendBatch /\ UNCHANGED notIns
    \/ InsertBatchFails /\ UNCHANGED notIns
    \/ InsertReturn /\ UNCHANGED notIns

InitInsert == InsInitState /\ CoreIdle /\ ProcIdle /\ RefundIdle /\ ValIdle /\ WipeIdle /\ QIdle

SpecInsert == InitInsert /\ [][NextInsert]_vars

\* one run of SyncL1ValidatorRefunds
NextRefund ==
    \/ RefundQuery /\ UNCHANGED notRefund
    \/ RefundCalc /\ UNCHANGED notRefund
    \/ RefundCalcDone /\ UNCHANGED notRefund
    \/ RefundInsert /\ UNCHANGED notRefund
    \/ RefundInsertFails /\ UNCHANGED notRefund

InitRefund == RefundInitState /\ CoreIdle /\ ProcIdle /\ InsIdle /\ ValIdle /\ WipeIdle /\ QIdle

SpecRefund == InitRefund /\ [][NextRefund]_vars

\* the validator syncer's cycles
NextVal ==
    \/ VsGenesis /\ UNCHANGED notVal
    \/ \E ok \in BOOLEAN : VsDiscover(ok) /\ UNCHANGED notVal
    \/ SubnetFetchFails /\ UNCHANGED notVal
    \/ \E S \in SUBSET Validators, P \in SUBSET Validators :
          SubnetFetch(S, P) /\ UNCHANGED notVal
    \/ \E ok \in BOOLEAN, zero \in SUBSET Validators : SubnetInsert(ok, zero) /\ UNCHANGED notVal
    \/ \E ok \in BOOLEAN : SubnetMark(ok) /\ UNCHANGED notVal
    \/ \E ok \in BOOLEAN, l1 \in SUBSET Range(L1Subnets), regular \in SUBSET Range(RegularSubnets) :
          VsDiscoverSubnets(ok, l1, regular) /\ UNCHANGED notVal
    \/ VsBalance /\ UNCHANGED notVal
    \/ VsRefunds /\ UNCHANGED notVal
    \/ VsFees /\ UNCHANGED notVal
    \/ VsTicker /\ UNCHANGED notVal

InitVal == ValInitState /\ CoreIdle /\ ProcIdle /\ InsIdle /\ RefundIdle /\ WipeIdle /\ QIdle

SpecVal == InitVal /\ [][NextVal]_vars

\* one run of the wipe command
NextWipe ==
    \/ WipeQuery /\ UNCHANGED notWipe
    \/ WipeDrop /\ UNCHANGED notWipe
    \/ WipeDropFails /\ UNCHANGED notWipe

InitWipe == WipeInitState /\ CoreIdle /\ ProcIdle /\ InsIdle /\ RefundIdle /\ ValIdle /\ QIdle

SpecWipe == InitWipe /\ [][NextWipe]_vars

\* Specifications of the further components.
NextLoop ==
    \/ Start /\ UNCHANGED notLoop
    \/ \E ok \in BOOLEAN : syncOnceReturns(ok) /\ UNCHANGED notLoop
    \/ TickerFires /\ UNCHANGED notLoop
    \/ SelectTick /\ UNCHANGED notLoop
    \/ SelectStop /\ UNCHANGED notLoop
    \/ SelectCtxDone /\ UNCHANGED notLoop
    \/ Stop /\ UNCHANGED notLoop
    \/ CtxCancel /\ UNCHANGED notLoop

InitLoop == LoopInitState /\ CoreIdle /\ PIdle /\ BalIdle /\ RcIdle /\ SnIdle /\ WcIdle

SpecLoop == InitLoop /\ [][NextLoop]_vars

NextBal ==
    \/ \E v \in Validators : RegisterL1Validator(v) /\ UNCHANGED notBal
    \/ \E v \in Validators : IncreaseL1ValidatorBalance(v) /\ UNCHANGED notBal
    \/ BalanceSyncBegins /\ UNCHANGED notBal
    \/ \E maxOk \in BOOLEAN : BalanceQuery(maxOk) /\ UNCHANGED notBal
    \/ BalanceQueryFails /\ UNCHANGED notBal
    \/ InsertL1ValidatorBalanceTxs /\ UNCHANGED notBal
    \/ InsertBalanceTxsFails /\ UNCHANGED notBal

\* the sync cycles go on for ever, and a store that answers at all answers
\* without error again and again
BalFairness ==
    /\ WF_vars(BalanceSyncBegins /\ UNCHANGED notBal)
    /\ SF_vars(BalanceQuery(TRUE) /\ UNCHANGED notBal)
    /\ SF_vars(InsertL1ValidatorBalanceTxs /\ UNCHANGED notBal)


InitBal == BalInitState /\ CoreIdle /\ PIdle /\ LoopIdle /\ RcIdle /\ SnIdle /\ WcIdle

SpecBal == InitBal /\ [][NextBal]_vars /\ BalFairness

NextRc ==
    \/ DisableL1Validator /\ UNCHANGED notRc
    \/ RefundsSyncBegins /\ UNCHANGED notRc
    \/ \E maxOk \in BOOLEAN : \E written \in SUBSET (1..MaxRcBlock) :
          SyncL1ValidatorRefunds(maxOk, written) /\ UNCHANGED notRc
    \/ SyncL1ValidatorRefundsFails /\ UNCHANGED notRc

\* the sync cycles go on for ever, and a store that answers at all lets a
\* cycle reach its insert again and again
RcFairness ==
    /\ WF_vars(RefundsSyncBegins /\ UNCHANGED notRc)
    /\ SF_vars(\E written \in SUBSET (1..MaxRcBlock) :
                  SyncL1ValidatorRefunds(TRUE, written) /\ UNCHANGED notRc)


InitRc == RcInitState /\ CoreIdle /\ PIdle /\ LoopIdle /\ BalIdle /\ SnIdle /\ WcIdle

SpecRc == InitRc /\ [][NextRc]_vars /\ RcFairness

NextSn ==
    \/ \E s \in SnSubnets, t \in txTypes : SubnetTx(s, t) /\ UNCHANGED notSn
    \/ \E maxOk \in BOOLEAN : DiscoverAllSubnets(maxOk) /\ UNCHANGED notSn
    \/ DiscoverAllSubnetsFails /\ UNCHANGED notSn


InitSn == SnInitState /\ CoreIdle /\ PIdle /\ LoopIdle /\ BalIdle /\ RcIdle /\ WcIdle

SpecSn == InitSn /\ [][NextSn]_vars

NextWc ==
    \/ WipeChainDelete /\ UNCHANGED notWc
    \/ WipeChainDeleteFails /\ UNCHANGED notWc


InitWc == WcInitState /\ CoreIdle /\ PIdle /\ LoopIdle /\ BalIdle /\ RcIdle /\ SnIdle

SpecWc == InitWc /\ [][NextWc]_vars

\* End of these specifications.

(***************************************************************************)
(* Claims about the chain syncer and the raw tables.                       *)
(***************************************************************************)
\* first block a syncer ever requests: start_block, and block 1 when omitted
StartOf(c) == Max(startBlock[c], 1)

\* C1: at every point of a run, every block b with start_block <= b <=
\* sync_watermark(c) has all its raw rows in the raw tables of chain c; the
\* watermark is only written after the append of the whole window succeeded,
\* and a failed fetch or append leaves it as it was.
C1_RowsBelowWatermark ==
    \A c \in Chains : \A b \in 1..MaxBlock :
        (StartOf(c) <= b /\ b <= syncWatermark[c]) =>
            \A k \in BlockKeys(c, b) : rows[k] >= 1

\* C1 witness: a watermark that covers two blocks was written in a run in
\* which an iteration failed
C1_Witness ==
    \E c \in Chains :
        /\ syncWatermark[c] >= StartOf(c) + 1
        /\ faults >= 1
        /\ \E b \in StartOf(c)..syncWatermark[c] : BlockKeys(c, b) # {}

\* C2: the persisted sync watermark of a chain never decreases, whatever the
\* sequence of successful, failed and restarted iterations.
C2_WatermarkMonotone ==
    [][\A c \in Chains : syncWatermark'[c] >= syncWatermark[c]]_vars

\* C2 witness: the watermark was advanced again after a crash and restart
C2_Witness ==
    \E c \in Chains :
        /\ faults = MaxFaults
        /\ spc[c] = "loop"
        /\ W[c] = syncWatermark[c]
        /\ syncWatermark[c] = MaxBlock

\* C3: after a crash between the raw append of a window and the watermark
\* write, and the replay of that window, every raw table holds exactly one
\* logical row per appended key (EVM raw tables and p_chain_txs).
C3_ReplayKeepsOneRow ==
    \A c \in Chains :
        (replayed[c] = "done" /\ spc[c] \in {"status", "commit"}) =>
            \A b \in (W[c] + 1)..winTo[c] :
                \A k \in BlockKeys(c, b) : Logical(k) = 1

\* the P-chain half of C3, which the ReplacingMergeTree engine gives
C3_PChainOnly ==
    (replayed[PChainId] = "done" /\ spc[PChainId] \in {"status", "commit"}) =>
        \A b \in (W[PChainId] + 1)..winTo[PChainId] :
            \A k \in BlockKeys(PChainId, b) : Logical(k) = 1

\* C4: a finished FetchBlockRange / FetchBlockRangeJSON call has either
\* returned exactly to-from+1 blocks, the i-th being the non-nil block of
\* height from+i-1, or an error and no blocks; never a partly filled range.
C4_WholeRangeOrError ==
    \A c \in Calls :
        call[c].pc = "done" =>
            \/ /\ call[c].ret = "ok"
               /\ Len(call[c].res) = call[c].to - call[c].from + 1
               /\ \A i \in 1..Len(call[c].res) :
                      call[c].res[i] = call[c].from + (i - 1)
            \/ /\ call[c].ret = "err"
               /\ call[c].res = <<>>

\* a call over three heights has returned blocks of which one came from the
\* cache and the others from goroutines; one cost a retry or a backward search
C4_Witness ==
    \E c \in Calls :
        /\ call[c].pc = "done" /\ call[c].ret = "ok"
        /\ call[c].to - call[c].from = 2
        /\ call[c].hit # {} /\ call[c].missing # {}
        /\ ffaults > 0

\* C5: the number of block-fetch RPC requests in flight on one Fetcher
\* is at most max_concurrency.
C5_InFlightBounded == InFlight <= MaxConcurrency

\* C6: a range call fails on an RPC failure only after max_retries
\* attempts for one of its blocks have failed.
C6_FailsOnlyAfterMaxRetries ==
    \A c \in Calls :
        (call[c].pc = "done" /\ call[c].ret = "err" /\ call[c].fetchErr) =>
            \E h \in call[c].missing : gor[c][h].attempt >= MaxRetries

\* C7: the delay slept before retry attempt k is strictly positive, at most
\* 10 s, and not below the delay slept before attempt k-1.
C7_DelayPositiveBoundedMonotone ==
    bAttempt >= 1 =>
        /\ ~IsNegative(bDelay) /\ ~IsZero(bDelay)
        /\ ~Greater(bDelay, TenSeconds)
        /\ ~Greater(bPrevDelay, bDelay)

\* the delays of the first retries (100 ms, 200 ms; 500 ms, 1 s) and the cap
C7_FirstDelays ==
    /\ (bAttempt = 2 /\ bRetryDelayMs = 100) => bDelay = Mul(Word(200), Millisecond)
    /\ (bAttempt = 2 /\ bRetryDelayMs = 500) => bDelay = Second
    /\ (bAttempt \in 8..30) => bDelay = TenSeconds

\* C8: a range call that found a parsable cache entry for each of its
\* heights issues no RPC request and returns to-from+1 blocks.
C8_FullCacheNoRpc ==
    \A c \in Calls :
        (call[c].full /\ ~call[c].cacheErr) =>
            /\ ~call[c].usedRpc
            /\ call[c].pc = "done" =>
                   /\ call[c].ret = "ok"
                   /\ Len(call[c].res) = call[c].to - call[c].from + 1

\* C9: a cache read failure alone never makes a range call fail: a call
\* that returned an error had a failed RPC fetch.
C9_CacheErrorIsMiss ==
    \A c \in Calls :
        (call[c].pc = "done" /\ call[c].ret = "err") => call[c].fetchErr

\* C10: whenever the cache command has stored checkpoint value h, every
\* block from the start block up to h is in the cache.
C10_CheckpointPrefixCached ==
    lastSet # 0 => Covered(blockRuns, OriginalStartBlock, lastSet)

\* C11: the values passed to SetCheckpoint during one cache run never
\* decrease and are at least the checkpoint read at the start of the run; a
\* run whose end block is below that checkpoint passes none.
C11_CheckpointValuesMonotone ==
    [][/\ lastPassed' >= lastPassed
       /\ lastPassed' # 0 => lastPassed' >= readCheckpoint'
       /\ (cpc' # "idle" /\ endBlock' < readCheckpoint') => lastPassed' = 0]_vars

\* a run that resumed above a checkpoint has passed an intermediate value and,
\* after it, the final one
C11_Witness ==
    /\ cpc = "returned"
    /\ readCheckpoint > 0
    /\ lastPassed = endBlock
    /\ lastCheckpoint > cStartBlock - 1
    /\ lastCheckpoint < endBlock

(***************************************************************************)
(* Claims about the index runner.                                          *)
(***************************************************************************)
\* C12: for every indexer and granularity the watermark held in memory by a
\* running process and the values written to indexer_watermarks never
\* decrease, whatever OnBlock reports (also a lower block number or an
\* earlier block time) and however OnBlock interleaves with the runner.
C12_WatermarksNeverDecrease ==
    [][ixKind # "off" =>
         \A n \in Names :
            /\ indexerWatermarks'[n].LastBlockNum >= indexerWatermarks[n].LastBlockNum
            /\ indexerWatermarks'[n].LastPeriod >= indexerWatermarks[n].LastPeriod
            /\ incarnation' = incarnation =>
                  /\ watermarks'[n].LastBlockNum >= watermarks[n].LastBlockNum
                  /\ watermarks'[n].LastPeriod >= watermarks[n].LastPeriod]_vars

\* C13: whenever the watermark of a block-range incremental indexer that has
\* a watermark B advances to B', the indexer SQL was last executed over
\* exactly [B+1..B'], under every interleaving of OnBlock with the step.
C13_AdvanceCoversExecutedRange ==
    [][ixKind # "off" =>
         \A i \in 1..Len(Indexers) :
            LET B == watermarks[Indexers[i]].LastBlockNum
                B2 == watermarks'[Indexers[i]].LastBlockNum
            IN (incarnation' = incarnation /\ B # 0 /\ B2 # B)
                  => lastExec'[Indexers[i]] = <<B + 1, B2>>]_vars

\* C14: a block-range step of an indexer with stored watermark W and latest
\* block L > W executes [W+1, min(L, W + incremental_batch_size)] and sets
\* the watermark to that upper bound.
C14_RangeCappedByBatchSize ==
    [][ixKind # "off" =>
         \A i \in 1..Len(Indexers) :
            LET n == Indexers[i]
                wm == indexerWatermarks[n].LastBlockNum
            IN /\ lastExec'[n] # lastExec[n] =>
                     lastExec'[n] = <<wm + 1, Min(latestBlockNum, wm + incremental_batch_size)>>
               /\ (incarnation' = incarnation
                     /\ indexerWatermarks'[n] # indexerWatermarks[n]) =>
                  /\ lastExec'[n] # <<>>
                  /\ indexerWatermarks'[n].LastBlockNum = lastExec'[n][2]]_vars

\* C15: the first range a batched or immediate incremental indexer ever
\* executes starts at block 1.
C15_FirstRunStartsAtBlockOne ==
    [][(ixKind \in {"batched", "immediate"}) =>
         \A i \in 1..Len(Indexers) :
            (lastExec[Indexers[i]] = <<>> /\ lastExec'[Indexers[i]] # <<>>)
               => 1 = lastExec'[Indexers[i]][1]]_vars

C17_NoWorkWhenCaughtUp ==
    [][(ixKind # "off" /\ incarnation' = incarnation) =>
         /\ (ixKind \in {"batched", "immediate"} /\ ipc = "idle"
               /\ watermarks'[Indexers[1]].LastBlockNum >= latestBlockNum)
              => /\ ipc' = "idle"
                 /\ lastExec' = lastExec
                 /\ indexerWatermarks' = indexerWatermarks
         /\ (ixKind = "perblock" /\ ipc = "idle")
              => /\ lastExec' = lastExec
                 /\ indexerWatermarks' = indexerWatermarks
                 /\ \A i \in 1..Len(Indexers) :
                       (ipc' = "ploop"
                          /\ watermarks'[Indexers[i]].LastBlockNum >= latestBlockNum)
                         => watermarks'[Indexers[i]].LastBlockNum >= blockNum'
         /\ (ipc = "ploop" /\ watermarks[Indexers[gi]].LastBlockNum >= blockNum)
              => /\ lastExec' = lastExec
                 /\ indexerWatermarks' = indexerWatermarks
         /\ (latestBlockNum = 0 /\ latestBlockNum' = 0 /\ ixKind # "perblock")
              => UNCHANGED <<watermarks, indexerWatermarks, lastExec, ipc,
                             lastRunTime>>
         /\ (latestBlockNum = 0 /\ latestBlockNum' = 0)
              => UNCHANGED <<indexerWatermarks, lastExec>>]_vars

C17_Witness ==
    /\ ixKind = "immediate"
    /\ ipc = "idle"
    /\ latestBlockNum = 1
    /\ watermarks[Indexers[1]].LastBlockNum = 1
    /\ indexerWatermarks[Indexers[1]].LastBlockNum = 0
    /\ lastExec[Indexers[1]] = <<>>

\* the watermark a runner holds once it has loaded and initialised x
Effective(x) == IF x = 0 THEN ixStartBlock - 1 ELSE x

C19_ClosedPeriodsHalfOpenWindow ==
    [][(ixKind = "metrics" /\ incarnation' = incarnation) =>
         LET g == Granularities[gi]
             len == PeriodLen(g)
         IN /\ (ipc = "idle" /\ ipc' = "mrun")
                 => /\ periods' # <<>>
                    /\ periods'[1] = watermarks'[g].LastPeriod + len
                    /\ \A i \in 1..(Len(periods') - 1) :
                          periods'[i + 1] = periods'[i] + len
                    /\ periods'[Len(periods')] + len <= latestBlockTime
                    /\ periods'[Len(periods')] + 2 * len > latestBlockTime
            /\ (ipc = "idle" /\ ipc' = "idle"
                  /\ latestBlockNum' = latestBlockNum
                  /\ latestBlockTime' = latestBlockTime)
                 => (latestBlockNum = 0
                       \/ watermarks'[g].LastPeriod + 2 * len > latestBlockTime)
            /\ (ipc = "mrun" /\ ipc' = "madvance")
                 => /\ lastExec'[g] = <<periods[1], periods[Len(periods)] + len>>
                    /\ feedMonotone => lastExec'[g][2] <= latestBlockTime
            /\ lastExec' # lastExec => (ipc = "mrun" /\ ipc' = "madvance")
            /\ (ipc = "madvance" /\ ipc' = "idle")
                 => /\ watermarks'[g].LastPeriod = periods[Len(periods)]
                    /\ indexerWatermarks'[g].LastPeriod = lastExec[g][2] - len]_vars

C19_Witness ==
    /\ ixKind = "metrics"
    /\ ipc = "idle"
    /\ latestBlockTime = 2 * 24 + 1
    /\ lastExec["day"] = <<24, 2 * 24>>
    /\ indexerWatermarks["day"].LastPeriod = 24
    /\ lastExec["hour"] = <<1, 2 * 24 + 1>>

\* C20: for every granularity the executed windows are contiguous and
\* pairwise disjoint, also across a crash at any point and the restart from
\* the persisted watermark: each window starts where the one before ended.
C20_WindowsNeverOverlap ==
    [][ixKind = "metrics" =>
         \A i \in 1..Len(Granularities) :
            LET g == Granularities[i]
            IN (lastExec'[g] # lastExec[g] /\ lastExec[g] # <<>>)
                  => lastExec'[g][1] = lastExec[g][2]]_vars

\* C21: once the stored watermark of a granularity stands at P', the
\* metrics table holds a row for every period start after the epoch up to
\* P', also for periods in which the raw tables hold no counted record.
C21_RowPerClosedPeriod ==
    ixKind = "metrics" =>
       \A i \in 1..Len(Granularities) :
          LET g == Granularities[i]
          IN \A p \in 1..indexerWatermarks[g].LastPeriod :
                toStartOf(p, g) = p => <<g, p>> \in metrics

\* C22: the step in which an indexer's SQL or its watermark save fails
\* leaves that indexer's watermark as it was, in memory and in
\* indexer_watermarks, and the runner executes nothing after the panic.
C22_FailureLeavesWatermark ==
    [][/\ (ipc' = "panicked" /\ ipc # "panicked")
            => /\ watermarks' = watermarks
               /\ indexerWatermarks' = indexerWatermarks
       /\ (ipc = "panicked" /\ incarnation' = incarnation)
            => /\ ipc' = "panicked"
               /\ lastExec' = lastExec
               /\ indexerWatermarks' = indexerWatermarks]_vars

(***************************************************************************)
(* Claims about the ingest process, the P-chain derivations and wipe.      *)
(***************************************************************************)
\* C23: once a per-chain syncer task has panicked, the process does not go
\* on working for the remaining chains: no task completes or takes up a
\* unit of work any more.
C23_PanicEndsProcess ==
    [][(\E c \in Configs : task[c] = "recovered")
          => /\ unitsDone' = unitsDone
             /\ \A c \in Configs : task'[c] = "busy" => task[c] = "busy"]_vars

\* C24: the batches sent by InsertPChainTxs are consecutive slices of at
\* most 5,000 transactions of the block-ordered list, starting at its first
\* transaction; a call that returns nil has sent ceil(n/5000) batches that
\* end at the last transaction; a call that returns an error has sent fewer
\* batches, sends no more, and no batch that was sent is taken back.
C24_BatchesCoverAllTxs ==
    [][LET n == CollectLen(insBlocks)
           full == (n + MaxTxsPerInsertBatch - 1) \div MaxTxsPerInsertBatch
           sent == insSent'
       IN /\ \A j \in 1..Len(sent) :
                /\ sent[j][2] - sent[j][1] \in 1..MaxTxsPerInsertBatch
                /\ sent[j][1] = IF j = 1 THEN 0 ELSE sent[j - 1][2]
          /\ insPc' = "ok" => /\ Len(sent) = full
                              /\ n > 0 => sent[Len(sent)][2] = n
          /\ insPc' = "err" => Len(sent) < full
          /\ Len(insSent) <= Len(sent)
          /\ SubSeq(sent, 1, Len(insSent)) = insSent
          /\ insPc \in {"ok", "err"} => sent = insSent]_vars

\* a call over more than two batches' worth of transactions has returned nil
C24_Witness == insPc = "ok" /\ Len(insSent) = 3

\* C25 as stated: the refund calculated for a disable at T of a period
\* that started at `start` is max(0, deposits of the period - (T - start) * 512)
\* and lies between 0 and the deposits of the period.
C25_RefundFormulaSigned ==
    [][(rfPc = "calc" /\ rfI' = rfI + 1 /\ rfHistory)
          => LET T == rfTxs[rfI + 1]
                 total == TotalDeposits(T)
                 r == rfAmount'[rfI + 1]
             IN /\ r = Max(0, total - (T - StartTime(T)) * minFeeRate)
                /\ 0 <= r
                /\ r <= total]_vars

\* C25, amended: the same with the active time counted as 0 seconds when
\* the disable precedes the start of the period.
C25_RefundFormula ==
    [][(rfPc = "calc" /\ rfI' = rfI + 1 /\ rfHistory)
          => LET T == rfTxs[rfI + 1]
                 total == TotalDeposits(T)
                 r == rfAmount'[rfI + 1]
             IN /\ r = Max(0, total - Max(0, T - StartTime(T)) * minFeeRate)
                /\ 0 <= r
                /\ r <= total]_vars

\* two refunds were calculated: one for a disable before the creation time,
\* one with a positive result for the period after it
C25_Witness ==
    /\ rfHistory
    /\ rfI = 2
    /\ rfTxs[1] < rfCreated
    /\ rfAmount[2] > 0

\* C26: when a run of the refund sync has returned without error, the
\* refunds table holds a row for every DisableL1Validator transaction it
\* processed, with the clamped amount, also when that amount is 0.
C26_RefundRowPerDisable ==
    (rfPc = "done" /\ rfHistory)
       => \A i \in 1..Len(rfTxs) :
             \E r \in rfRefunds :
                /\ r[1] = rfTxs[i]
                /\ r[2] = Max(0, TotalDeposits(rfTxs[i])
                                   - (rfTxs[i] - StartTime(rfTxs[i])) * minFeeRate)

\* C27: the step in which the sync of a subnet completes without error
\* leaves no validator stored as active that was stored as active before
\* and is absent from the RPC response, an empty response included.
C27_AbsentMarkedInactive ==
    [][\A s \in SubnetIds :
          (/\ vsQueue # <<>>
           /\ Head(vsQueue) = s
           /\ vsQueue' = Tail(vsQueue)
           /\ Len(vsLog') = Len(vsLog) + 1
           /\ vsLog'[Len(vsLog')] \in {<<"snapshot", s>>, <<"mark", s>>})
          => LET snap == IF vsSub = "mark" THEN vsSnap ELSE {}
             IN vsActive'[s] \cap (vsActive[s] \ snap) = {}]_vars

\* C28: the steps of one cycle run in the order genesis, discovery,
\* snapshots of the primary network, of the L1 subnets, of the regular
\* subnets, balance ledger, refunds, fee statistics; every marking directly
\* follows the snapshot of its subnet and every snapshot is directly
\* followed by the storing and marking of its subnet.
C28_CycleStepOrder ==
    LET Rank(e) == CASE e[1] = "genesis" -> 1
                     [] e[1] = "discover" -> 2
                     [] e[2] = PrimaryNetwork -> 3
                     [] e[2] \in Range(L1Subnets) -> 4
                     [] e[2] \in Range(RegularSubnets) -> 5
                     [] e[1] = "balance" -> 6
                     [] e[1] = "refunds" -> 7
                     [] OTHER -> 8
        after == {"mark", "markfail", "insertfail"}
    IN /\ \A i \in 1..Len(vsLog), j \in 1..Len(vsLog) :
             i < j => /\ Rank(vsLog[i]) <= Rank(vsLog[j])
                      /\ vsLog[i][2] = "-" => Rank(vsLog[i]) < Rank(vsLog[j])
       /\ \A i \in 1..Len(vsLog) :
             vsLog[i][1] \in after => /\ i > 1
                                      /\ vsLog[i - 1] = <<"snapshot", vsLog[i][2]>>
       /\ \A i \in 1..(Len(vsLog) - 1) :
             vsLog[i][1] = "snapshot" => /\ vsLog[i + 1][1] \in after
                                         /\ vsLog[i + 1][2] = vsLog[i][2]

\* C29: a wipe without --all changes none of raw_blocks, raw_txs,
\* raw_traces, raw_logs, p_chain_txs and sync_watermark in any step, and
\* when it has finished no other table is left in the database.
C29_WipeKeepsRawTables ==
    [][(~wAll /\ wPc # "off")
          => LET six == {"raw_blocks", "raw_txs", "raw_traces", "raw_logs",
                         "p_chain_txs", "sync_watermark"}
             IN /\ \A t \in six : wTables'[t] = wTables[t]
                /\ wPc' = "done" =>
                      \A t \in Range(TableNames) \ six : wTables'[t] = "absent"]_vars

\* a wipe without --all has dropped three tables and sync_watermark is there
C29_Witness ==
    /\ ~wAll
    /\ wPc = "done"
    /\ wDropped = 3
    /\ wTables["sync_watermark"] = "rows"

\* C30: after a termination signal the process has exited with code 1 and
\* no syncer's unit of work was left unfinished.
C30_SignalFinishesInFlight ==
    sigReceived => /\ procState = "exited"
                   /\ exitCode = 1
                   /\ \A c \in Configs : task[c] # "busy"

(***************************************************************************)
(* Claims about the block-by-block runner of incremental indexers.         *)
(***************************************************************************)
\* the step in which indexer n executes its SQL for one block
ExecutesBlock(n) ==
    /\ ipc = "ploop"
    /\ Indexers[gi] = n
    /\ incarnation' = incarnation
    /\ watermarks'[n].LastBlockNum # watermarks[n].LastBlockNum

\* C31: the incremental indexers advance in lock-step, one block per call:
\* the block an indexer executes is its own watermark + 1, no indexer's
\* watermark is below the executing indexer's, and within one call the
\* indexers are visited in order, each once, for the same block.
C31_LockStepOneBlockPerCall ==
    [][ixKind = "perblock" =>
         /\ \A i \in 1..Len(Indexers) :
               LET n == Indexers[i]
                   w == watermarks[n].LastBlockNum
               IN ExecutesBlock(n) =>
                     /\ lastExec'[n] = <<w + 1, w + 1>>
                     /\ watermarks'[n].LastBlockNum = w + 1
                     /\ blockNum = w + 1
                     /\ \A j \in 1..Len(Indexers) :
                           watermarks[Indexers[j]].LastBlockNum >= w
         /\ (ipc = "ploop" /\ ipc' = "ploop")
               => gi' \in {gi, gi + 1} /\ blockNum' = blockNum]_vars

\* every indexer has executed the blocks from block 1 to the last one
C31_Witness ==
    /\ ixKind = "perblock"
    /\ ixStartBlock = 1
    /\ ipc = "idle"
    /\ \A i \in 1..Len(Indexers) :
          /\ lastExec[Indexers[i]] = <<MaxIxBlock, MaxIxBlock>>
          /\ watermarks[Indexers[i]].LastBlockNum = MaxIxBlock

\* C32: an incremental indexer with stored watermark 0 that has executed
\* nothing yet starts at start_block, for every start_block, 0 included:
\* no block below start_block is executed, the first block executed is
\* start_block, and once a block >= start_block has been reported the
\* indexer's in-memory watermark is below the latest block, so that the
\* next call takes up its work.
C32_FirstBlockIsStartBlock ==
    [][ixKind = "perblock" =>
         \A i \in 1..Len(Indexers) :
            LET n == Indexers[i]
            IN /\ ExecutesBlock(n) =>
                     /\ lastExec'[n][1] >= ixStartBlock
                     /\ lastExec[n] = <<>> => lastExec'[n][1] = ixStartBlock
               /\ ( /\ ipc' = "idle"
                    /\ indexerWatermarks'[n].LastBlockNum = 0
                    /\ lastExec'[n] = <<>>
                    /\ latestBlockNum' >= 1
                    /\ latestBlockNum' >= ixStartBlock )
                     => watermarks'[n].LastBlockNum < latestBlockNum']_vars

\* C34: the watermark in indexer_watermarks is never above the one in
\* memory nor above the last block whose SQL completed; a restart loads
\* exactly the stored watermarks, and every execution is of the block after
\* the in-memory watermark, so that a restart resumes at stored + 1.
C34_PersistedNeverAhead ==
    [][ixKind = "perblock" =>
         \A i \in 1..Len(Indexers) :
            LET n == Indexers[i]
                p == indexerWatermarks'[n].LastBlockNum
            IN /\ p <= watermarks'[n].LastBlockNum
               /\ p > 0 => lastExec'[n] # <<>> /\ p <= lastExec'[n][2]
               /\ incarnation' # incarnation
                     => watermarks'[n].LastBlockNum = indexerWatermarks[n].LastBlockNum
               /\ (ExecutesBlock(n) /\ watermarks[n].LastBlockNum = indexerWatermarks[n].LastBlockNum
                     /\ indexerWatermarks[n].LastBlockNum > 0)
                     => lastExec'[n][1] = indexerWatermarks[n].LastBlockNum + 1]_vars

\* after a restart an indexer has executed the block after its stored
\* watermark again, the stored watermark being behind the executed block
C34_Witness ==
    /\ ixKind = "perblock"
    /\ incarnation = 1
    /\ \E i \in 1..Len(Indexers) :
          /\ indexerWatermarks[Indexers[i]].LastBlockNum = 1
          /\ watermarks[Indexers[i]].LastBlockNum = 2
          /\ lastExec[Indexers[i]] = <<2, 2>>

(***************************************************************************)
(* Claims about the validator syncer loop and the P-chain derivations.     *)
(***************************************************************************)
\* C33: Stop never panics and closes the stop channel once, however often
\* and whenever it is called; Start runs a cycle at once, a failed cycle
\* is followed by the select like a successful one; Start returns only
\* from the select, after Stop or cancellation, and once the stop channel
\* is closed or the context cancelled no further cycle is begun.
C33_StopEndsLoopAfterCycle ==
    [][/\ ~stopPanicked'
       /\ stopCalls' >= 1 => stopCh' = "closed"
       /\ startPc = "new" /\ startPc' # "new" => startPc' = "initial"
       /\ (startPc \in {"initial", "cycle"} /\ startPc' # startPc)
             => startPc' = "select"
       /\ (startPc # "returned" /\ startPc' = "returned")
             => startPc = "select" /\ (stopCh = "closed" \/ ctxDone)
       /\ (startPc = "select" /\ startPc' = "cycle")
             => stopCh = "open" /\ ~ctxDone]_vars

\* C35: every validator in l1_validator_history with an initial balance
\* eventually has its initial deposit in l1_validator_balance_txs, also
\* when it is registered after the cycle that wrote the first row.
C35_InitialDepositEventuallyRecorded ==
    \A v \in Validators : \A b \in 1..MaxBalBlock :
       (<<v, b>> \in blHistory) ~> (<<v, "initial", b>> \in blBalanceTxs)

\* C36: a DisableL1Validator transaction that a cycle examined without
\* writing a refund row is examined again by a later cycle (or has its
\* row), whatever refund rows of higher blocks were written meanwhile.
C36_SkippedExaminedAgain ==
    \A b \in 1..MaxRcBlock :
       (b \in rcSkipped /\ rcPc = "cycle") ~> (b \in rcExamined \/ b \in rcRefundRows)

\* C37: the marking step of the sync of a subnet writes no validator of
\* the subnet's RPC response as inactive, whether or not its entry was
\* parsed by ParseValidatorInfo.
C37_SnapshotNeverMarkedInactive ==
    [][\A s \in SubnetIds :
          (vsSub = "mark" /\ vsSub' # "mark" /\ Head(vsQueue) = s)
             => (vsActive[s] \ vsActive'[s]) \cap vsSnap = {}]_vars

\* C38: a subnet stored with the earliest block in which it was seen as
\* created_block keeps that created_block (and with it created_time) in
\* every later step; only its type and conversion fields change.
C38_CreatedBlockNeverChanges ==
    [][\A s \in SnSubnets :
          (/\ subnets[s] # NoSubnet
           /\ subnets[s].CreatedBlock = MinOf({x[3] : x \in {y \in snTxs : y[1] = s}}))
             => /\ subnets'[s] # NoSubnet
                /\ subnets'[s].CreatedBlock = subnets[s].CreatedBlock]_vars

\* C39: when wipe --all --chain=N has succeeded, no table holds state of
\* chain N any more (raw rows, sync watermark, chain status, indexer
\* watermarks) and the rows of every other chain are as before.
C39_ChainWipeLeavesNoState ==
    wcPc = "done" => \A t \in ChainTables : wcDb[t] = wcBefore[t] \ {wcChain}

(***************************************************************************)
(* A further claim about the P-chain RPC fetcher.                          *)
(***************************************************************************)
\* C40: a range call that has returned, with a result or an error, has no
\* goroutine left and holds no slot of the semaphore: the slots taken are
\* exactly those of the goroutines between acquire and release, never more
\* than max_concurrency, and none when no call is in progress.
C40_ReturnLeavesNoGoroutineNoSlot ==
    LET Holding(c, h) == gor[c][h].pc \in {"rpc", "backoff", "lookback"}
    IN /\ \A c \in Calls :
             call[c].pc \in {"idle", "done"}
                => \A h \in Heights : gor[c][h].pc \in {"none", "done"}
       /\ rpcLimit = Cardinality({ch \in Calls \X Heights : Holding(ch[1], ch[2])})
       /\ rpcLimit <= MaxConcurrency
       /\ (\A c \in Calls : call[c].pc \in {"idle", "done"}) => rpcLimit = 0

\* a range of which one block was fetched and another failed has returned
\* its error
C40_Witness ==
    /\ call[1].pc = "done"
    /\ call[1].ret = "err"
    /\ \E h \in Heights : gor[1][h].pc = "done" /\ gor[1][h].out = h
    /\ \E h \in Heights : gor[1][h].pc = "done" /\ gor[1][h].out = 0
    /\ rpcLimit = 0

====
